---- MODULE Spec2Model ----
(***************************************************************************)
(* A model of the WSI viewer backend: the session registry                 *)
(* (session_manager.py), the source resolver and the range content server  *)
(* (app.py).                                                               *)
(*                                                                         *)
(* Request handlers are "async def" bodies without an await between the    *)
(* lookup of the session and the return of the response, so each handler   *)
(* is one atomic action of the event loop.  The last specifications of the *)
(* module run the handlers and the cleanup loop statement by statement as  *)
(* tasks of the event loop, which switches tasks only at an await.         *)
(***************************************************************************)
EXTENDS Integers, Sequences, FiniteSets, TLC

VARIABLES
    sessions,      \* SessionManager.sessions: token -> Session
    issued,        \* every token uuid4() has returned so far
    now,           \* the latest reading of datetime.utcnow(), in seconds
    cleanup_task,  \* SessionManager._cleanup_task: "None" or "Task"
    phase,         \* "init" (before startup_event), "serving", "stopped"
    fs,            \* the local filesystem: absolute path -> node
    gcs,           \* the remote store: bucket -> (object key -> bytes)
    last,          \* the most recent operation with its inputs and its outcome
    loop           \* the asyncio event loop: its tasks and the one that runs

vars == <<sessions, issued, now, cleanup_task, phase, fs, gcs, last, loop>>

----------------------------------------------------------------------------
(* Bounds of the model *)

\* number of tokens uuid4() can hand out (bounds the number of creates)
MaxTokens == 2
\* the clock stops advancing here (seconds)
MaxNow == 1861
\* largest size of a stored object, in bytes
MaxSize == 3
\* longest Range header, in symbols
MaxHeaderLen == 4
\* number of start_cleanup_loop() calls (bounds the number of loop tasks)
MaxStarts == 2

(* Program constants *)

\* --session-ttl default, SessionManager(ttl_minutes=30)
TtlMinutes == 30

\* what a lookup that finds nothing returns (Python's None)
None == [token |-> 0]

\* the event loop with no task: nothing runs, and no task is the one that
\* SessionManager._cleanup_task refers to
NoLoop == [running |-> 0, ref |-> 0, tasks |-> << >>]

----------------------------------------------------------------------------
(* Names and paths.  A name is a sequence of text pieces in which "." is a  *)
(* piece of its own, so that the code's tests on dots and extensions are    *)
(* computed; a path is a sequence of names (the text between slashes).      *)

Nm(stem, ext) == <<stem, ".", ext>>
Plain(stem) == <<stem>>
DotDot == <<".", ".">>
Dot == <<".">>

\* "." in name
HasDot(name) == \E i \in 1..Len(name) : name[i] = "."

\* name.rsplit('.', 1)[-1]: the text after the last dot
RECURSIVE AfterLastDot(_)
AfterLastDot(name) ==
    IF name = <<>> THEN <<>>
    ELSE IF HasDot(Tail(name)) THEN AfterLastDot(Tail(name))
    ELSE IF Head(name) = "." THEN Tail(name)
    ELSE name

\* pathlib: PurePath.parent
Parent(p) == IF p = <<>> THEN <<>> ELSE SubSeq(p, 1, Len(p) - 1)

\* pathlib: PurePath.name
BaseName(p) == IF p = <<>> THEN <<>> ELSE p[Len(p)]

\* the text of a path: its names joined by "/" (a sequence of pieces)
RECURSIVE Text(_)
Text(segs) ==
    IF segs = <<>> THEN <<>>
    ELSE IF Len(segs) = 1 THEN segs[1]
    ELSE segs[1] \o <<"/">> \o Text(Tail(segs))

\* str.lower(), on a piece of text
lower(piece) ==
    IF piece = "SVS" THEN "svs" ELSE IF piece = "TXT" THEN "txt" ELSE piece

\* A path text as the program receives it: the scheme it starts with ("" for
\* a local path), the bucket (remote only) and the names between slashes.
LocalPath(segs) == [scheme |-> "", bucket |-> "", segs |-> segs]
GcsPath(scheme, bucket, segs) == [scheme |-> scheme, bucket |-> bucket, segs |-> segs]

GcsSchemes == {"gs://", "gcs://", "https://storage.googleapis.com/",
               "https://storage.cloud.google.com/"}

is_gcs_path(path) == path.scheme \in GcsSchemes

\* (bucket, object path) of a remote location; the object path is stripped
\* of leading and trailing slashes, i.e. it is the sequence of its names
parse_gcs_location(path) == <<path.bucket, path.segs>>

\* prefix "/" filename, either side possibly empty
join_blob_path(prefix, filename) == prefix \o filename

----------------------------------------------------------------------------
(* The local filesystem: a function from absolute paths to nodes.  The     *)
(* root <<>> is a directory and is not in the domain.                       *)

DirNode == [kind |-> "dir", content |-> <<>>, target |-> <<>>]
FileNode(bytes) == [kind |-> "file", content |-> bytes, target |-> <<>>]
LinkNode(target) == [kind |-> "link", content |-> <<>>, target |-> target]

\* the answer of a lookup that fails (no path has this shape)
NoPath == << <<"<missing>">> >>

\* symlinks followed in one lookup (ELOOP beyond)
MaxLinks == 2

\* os.stat(path): the node the kernel reaches walking `rest` from the
\* directory `cur`, symlinks followed; NoPath when a component is missing
\* or a file is used as a directory
RECURSIVE Stat(_, _, _, _)
Stat(f, cur, rest, fuel) ==
    IF rest = <<>> THEN cur
    ELSE LET c == Head(rest)
             t == Tail(rest)
             child == Append(cur, c)
         IN  IF c = DotDot THEN Stat(f, Parent(cur), t, fuel)
             ELSE IF c = Dot THEN Stat(f, cur, t, fuel)
             ELSE IF child \notin DOMAIN f THEN NoPath
             ELSE IF f[child].kind = "link"
                  THEN IF fuel = 0 THEN NoPath
                       ELSE Stat(f, <<>>, f[child].target \o t, fuel - 1)
             ELSE IF f[child].kind = "file" /\ t # <<>> THEN NoPath
             ELSE Stat(f, child, t, fuel)

\* Path.exists(), Path.is_file(), Path.is_dir()
exists(f, p) == Stat(f, <<>>, p, MaxLinks) # NoPath
is_file(f, p) ==
    LET r == Stat(f, <<>>, p, MaxLinks)
    IN  r # NoPath /\ r # <<>> /\ f[r].kind = "file"
is_dir(f, p) ==
    LET r == Stat(f, <<>>, p, MaxLinks)
    IN  r # NoPath /\ (r = <<>> \/ f[r].kind = "dir")

\* Path.resolve() (not strict): symlinks followed and ".." collapsed; past
\* a missing component the rest is joined as text
RECURSIVE resolve_from(_, _, _, _)
resolve_from(f, cur, rest, fuel) ==
    IF rest = <<>> THEN cur
    ELSE LET c == Head(rest)
             t == Tail(rest)
             child == Append(cur, c)
         IN  IF c = DotDot THEN resolve_from(f, Parent(cur), t, fuel)
             ELSE IF c = Dot THEN resolve_from(f, cur, t, fuel)
             ELSE IF child \in DOMAIN f /\ f[child].kind = "link" /\ fuel > 0
                  THEN resolve_from(f, <<>>, f[child].target \o t, fuel - 1)
             ELSE resolve_from(f, child, t, fuel)

resolve(f, p) == resolve_from(f, <<>>, p, MaxLinks)

\* Path.stat().st_size and the bytes of the file a path leads to
file_bytes(f, p) == f[Stat(f, <<>>, p, MaxLinks)].content

\* Path.stat().st_size: the length of a file; for a directory, whatever the
\* filesystem reports for it (a block)
st_size(f, p) == IF is_file(f, p) THEN Len(file_bytes(f, p)) ELSE 4096

\* PurePath.is_relative_to(other)
is_relative_to(p, other) ==
    Len(other) <= Len(p) /\ SubSeq(p, 1, Len(other)) = other

----------------------------------------------------------------------------
(* session_manager.py *)

Tokens == 1..MaxTokens

\* a token generator that may return a token it returned before
FreshTokens_reusing(iss) == Tokens

\* uuid.uuid4(): a value no earlier call returned.  Tokens are opaque (the
\* program only compares them for equality), so the least unused one stands
\* for any of them
FreshTokens(iss) ==
    {t \in Tokens \ iss : \A u \in Tokens \ iss : t <= u}

\* the slide paths create_session keeps: remote ones as given, local ones
\* resolved, missing local ones dropped with a warning
normalized_slide_paths(f, slide_paths) ==
    LET kept == SelectSeq(slide_paths,
                          LAMBDA p : is_gcs_path(p) \/ exists(f, p.segs))
    IN  [i \in 1..Len(kept) |->
            IF is_gcs_path(kept[i]) THEN kept[i]
            ELSE LocalPath(resolve(f, kept[i].segs))]

\* the overlay paths create_session keeps: remote ones as given, local
\* directories resolved, anything else dropped with a warning
normalized_overlay_paths(f, overlay_paths) ==
    LET kept == SelectSeq(overlay_paths,
                          LAMBDA p : is_gcs_path(p) \/ is_dir(f, p.segs))
    IN  [i \in 1..Len(kept) |->
            IF is_gcs_path(kept[i]) THEN kept[i]
            ELSE LocalPath(resolve(f, kept[i].segs))]

\* Session(token=..., slide_paths=..., overlay_paths=...): the dataclass
\* fills last_accessed and then created_at, each from its own utcnow()
Session(token, slide_paths, overlay_paths, t_last_accessed, t_created_at) ==
    [token |-> token,
     slide_paths |-> slide_paths,
     overlay_paths |-> overlay_paths,
     last_accessed |-> t_last_accessed,
     created_at |-> t_created_at]

\* a touch that also empties the slide list
touch_dropping_sources(session, t) ==
    [session EXCEPT !.last_accessed = t, !.slide_paths = <<>>]

\* a touch that leaves the session as it is
touch_nothing(session, t) == session

\* Session.touch()
touch(session, t) == [session EXCEPT !.last_accessed = t]

\* SessionManager.create_session: the session it stores
create_session(f, token, slide_paths, overlay_paths, t1, t2) ==
    Session(token,
            normalized_slide_paths(f, slide_paths),
            normalized_overlay_paths(f, overlay_paths),
            t1, t2)

\* a lookup that touches every session of the map
sessions_after_get_all(s, token, t) ==
    IF token \in DOMAIN s THEN [k \in DOMAIN s |-> touch(s[k], t)] ELSE s

\* SessionManager.get_session: the map after the call (the session found is
\* touched) and the session returned
sessions_after_get(s, token, t) ==
    IF token \in DOMAIN s THEN [s EXCEPT ![token] = touch(s[token], t)] ELSE s

get_session(s, token, t) ==
    IF token \in DOMAIN s THEN touch(s[token], t) ELSE None

\* SessionManager.delete_session: what it returns
delete_session_found(s, token) == token \in DOMAIN s

\* a deletion that leaves the map as it is
delete_session_kept(s, token) == s

\* a deletion that removes every session along with the one named
delete_session_all(s, token) == IF token \in DOMAIN s THEN << >> ELSE s

\* SessionManager.delete_session: the map after the call
delete_session(s, token) ==
    [t \in DOMAIN s \ {token} |-> s[t]]

\* a sweep that also takes the sessions idle for exactly the limit
expired_at_limit(s, t) ==
    {tok \in DOMAIN s : t - s[tok].last_accessed >= TtlMinutes * 60}

\* SessionManager.cleanup_expired: the tokens it finds expired at time t
expired(s, t) ==
    {tok \in DOMAIN s : t - s[tok].last_accessed > TtlMinutes * 60}

\* a sweep that removes nothing
cleanup_expired_nothing(s, t) == s

\* SessionManager.cleanup_expired: the map after the call
cleanup_expired(s, t) ==
    [tok \in DOMAIN s \ expired(s, t) |-> s[tok]]

\* getattr(session, name): the dataclass has the attribute
hasattr(session, name) == name \in DOMAIN session

\* list_sessions: the attributes it reads of every session
SummaryAttributes ==
    {"token", "slides_dir", "single_slide", "created_at", "last_accessed"}

\* list_sessions: the response.  The summary of a session reads each of
\* SummaryAttributes; reading one the session does not have raises
\* AttributeError, which no handler catches (a 500 without a document).
list_sessions(s) ==
    IF \E t \in DOMAIN s : \E a \in SummaryAttributes : ~hasattr(s[t], a)
    THEN [status |-> 500, sessions |-> {}]
    ELSE [status |-> 200,
          sessions |-> { [a \in SummaryAttributes |-> s[t][a]] : t \in DOMAIN s }]

----------------------------------------------------------------------------
(* app.py: the Range header.  A header is a sequence of symbols: the unit   *)
(* prefix "bytes=", the separator "-", decimal digits, and "x" for any      *)
(* character that is none of these.  The empty sequence is a request        *)
(* without a Range header (headers.get('range') is None or '', both false). *)

Digits == {"0", "1", "2", "3", "4", "5", "6", "7", "8", "9"}

DigitValue(c) ==
    CASE c = "0" -> 0 [] c = "1" -> 1 [] c = "2" -> 2 [] c = "3" -> 3
      [] c = "4" -> 4 [] c = "5" -> 5 [] c = "6" -> 6 [] c = "7" -> 7
      [] c = "8" -> 8 [] c = "9" -> 9

\* range_header.replace('bytes=', '')
without_unit(h) == SelectSeq(h, LAMBDA c : c # "bytes=")

\* str.split('-')
RECURSIVE split_dash(_)
split_dash(s) ==
    IF \A i \in 1..Len(s) : s[i] # "-" THEN <<s>>
    ELSE LET i == CHOOSE k \in 1..Len(s) :
                      s[k] = "-" /\ \A j \in 1..(k - 1) : s[j] # "-"
         IN  <<SubSeq(s, 1, i - 1)>> \o split_dash(SubSeq(s, i + 1, Len(s)))

\* whether int(text) returns (it raises ValueError otherwise)
is_int(text) == text # <<>> /\ \A i \in 1..Len(text) : text[i] \in Digits

\* int(text) for a text of decimal digits
RECURSIVE int(_)
int(text) ==
    IF text = <<>> THEN 0
    ELSE 10 * int(SubSeq(text, 1, Len(text) - 1)) + DigitValue(text[Len(text)])

\* range_match = range_header.replace('bytes=', '').split('-')
range_match(h) == split_dash(without_unit(h))

\* whether the two int() calls of the parse return
range_parses(h) ==
    LET m == range_match(h)
    IN  /\ m[1] = <<>> \/ is_int(m[1])
        /\ (Len(m) > 1 /\ m[2] # <<>>) => is_int(m[2])

\* start = int(range_match[0]) if range_match[0] else 0
range_start(h) ==
    LET m == range_match(h) IN IF m[1] # <<>> THEN int(m[1]) ELSE 0

\* a parse in which a missing END is 0
range_end_zero(h, file_size) ==
    LET m == range_match(h)
    IN  IF Len(m) > 1 /\ m[2] # <<>> THEN int(m[2]) ELSE 0

\* end = int(range_match[1]) if len(range_match) > 1 and range_match[1]
\*       else file_size - 1
range_end(h, file_size) ==
    LET m == range_match(h)
    IN  IF Len(m) > 1 /\ m[2] # <<>> THEN int(m[2]) ELSE file_size - 1

----------------------------------------------------------------------------
(* app.py: responses *)

NoContentRange == [form |-> "none", first |-> 0, last |-> 0, size |-> 0]
\* f'bytes */{file_size}'
UnsatisfiedRange(file_size) ==
    [form |-> "unsatisfied", first |-> 0, last |-> 0, size |-> file_size]
\* f'bytes {start}-{end}/{file_size}'
ContentRange(start, end, file_size) ==
    [form |-> "span", first |-> start, last |-> end, size |-> file_size]

\* a response that carries none of the cross-origin headers
cors_headers_missing ==
    [allow_origin |-> "", allow_methods |-> {}, allow_headers |-> {},
     expose_headers |-> {}, accept_ranges |-> ""]

\* cors_headers of serve_raw_slide (Content-Type apart)
cors_headers ==
    [allow_origin |-> "*",
     allow_methods |-> {"GET", "HEAD", "OPTIONS"},
     allow_headers |-> {"Range", "Content-Type", "Accept"},
     expose_headers |-> {"Content-Length", "Content-Type", "Content-Range",
                         "Accept-Ranges"},
     accept_ranges |-> "bytes"]

\* the headers of the error document FastAPI writes for an HTTPException:
\* none of the handler's
error_headers ==
    [allow_origin |-> "", allow_methods |-> {}, allow_headers |-> {},
     expose_headers |-> {}, accept_ranges |-> ""]

\* Response(content=..., status_code=..., headers={**cors_headers, ...});
\* content_length is -1 when the response has no Content-Length of its own
Response(status, body, content_length, content_range) ==
    [status |-> status, body |-> body, content_length |-> content_length,
     content_range |-> content_range, headers |-> cors_headers]

\* raise HTTPException(status_code=...): an error document, without the
\* handler's headers
HTTPException(status) ==
    [status |-> status, body |-> <<>>, content_length |-> -1,
     content_range |-> NoContentRange, headers |-> error_headers]

\* f.seek(start); f.read(n): at most n bytes from offset start
seek_read(bytes, start, n) ==
    SubSeq(bytes, start + 1, IF start + n <= Len(bytes) THEN start + n ELSE Len(bytes))

\* blob.download_as_bytes(start=start, end=end) of google-cloud-storage:
\* `end` is the last byte of the range (the library sends the header
\* "Range: bytes=start-end"), and the store cuts a range that runs past the
\* object at its last byte
download_as_bytes(bytes, start, end) ==
    SubSeq(bytes, start + 1, IF end + 1 <= Len(bytes) THEN end + 1 ELSE Len(bytes))

\* the bytes the remote range branch asks the store for, once START and END
\* passed the tests: blob.download_as_bytes(start=start, end=end + 1) sends
\* "Range: bytes=start-(end + 1)", first and last byte both included
gcs_requested_span(file_size, h) ==
    LET start == range_start(h)
        end0 == range_end(h, file_size)
        end == IF end0 >= file_size THEN file_size - 1 ELSE end0
    IN  [first |-> start, last |-> end + 1]

\* serve_raw_slide, remote object with a Range header
gcs_range_response(bytes, file_size, h) ==
    IF ~range_parses(h) THEN HTTPException(500)
    ELSE LET start == range_start(h)
             end0 == range_end(h, file_size)
         IN  IF start >= file_size \/ start < 0
             THEN Response(416, <<>>, 0, UnsatisfiedRange(file_size))
             ELSE LET end == IF end0 >= file_size THEN file_size - 1 ELSE end0
                  IN  IF start > end
                      THEN Response(416, <<>>, 0, UnsatisfiedRange(file_size))
                      ELSE LET content == download_as_bytes(bytes, start, end + 1)
                           IN  Response(206, content, Len(content),
                                        ContentRange(start, end, file_size))

\* serve_raw_slide, remote object: reload, size test, then range or full
\* (a reload or download that raises becomes a 500)
gcs_response(bytes, h, transfer_raises) ==
    IF transfer_raises THEN HTTPException(500)
    ELSE LET file_size == Len(bytes)
         IN  IF file_size = 0 THEN HTTPException(404)
             ELSE IF h # <<>> THEN gcs_range_response(bytes, file_size, h)
             ELSE Response(200, bytes, file_size, NoContentRange)

\* a local range answer that does not compare START with END
local_range_response_unordered(bytes, file_size, h) ==
    IF ~range_parses(h) THEN HTTPException(500)
    ELSE LET start == range_start(h)
             end0 == range_end(h, file_size)
         IN  IF start >= file_size \/ start < 0
             THEN Response(416, <<>>, 0, UnsatisfiedRange(file_size))
             ELSE LET end == IF end0 >= file_size THEN file_size - 1 ELSE end0
                      content == seek_read(bytes, start, end - start + 1)
                  IN  Response(206, content, Len(content),
                               ContentRange(start, end, file_size))

\* serve_raw_slide, local file with a Range header
local_range_response(bytes, file_size, h) ==
    IF ~range_parses(h) THEN HTTPException(500)
    ELSE LET start == range_start(h)
             end0 == range_end(h, file_size)
         IN  IF start >= file_size \/ start < 0
             THEN Response(416, <<>>, 0, UnsatisfiedRange(file_size))
             ELSE LET end == IF end0 >= file_size THEN file_size - 1 ELSE end0
                  IN  IF start > end
                      THEN Response(416, <<>>, 0, UnsatisfiedRange(file_size))
                      ELSE LET content == seek_read(bytes, start, end - start + 1)
                           IN  Response(206, content, Len(content),
                                        ContentRange(start, end, file_size))

\* serve_raw_slide, local file: range, or FileResponse of the whole file
local_response(bytes, h) ==
    LET file_size == Len(bytes)
    IN  IF h # <<>> THEN local_range_response(bytes, file_size, h)
        ELSE Response(200, bytes, file_size, NoContentRange)

----------------------------------------------------------------------------
(* app.py: resolution of a filename in the slide paths of a session.  A     *)
(* filename is the text the route's {filename:path} captured: its names,    *)
(* and whether it starts with a slash.                                      *)

Filename(abs, segs) == [abs |-> abs, segs |-> segs]

\* p.name == filename, file_name == filename: equality of texts
is_name(filename, name) == ~filename.abs /\ filename.segs = <<name>>

\* Path(slide_path) / filename
joinpath(p, filename) == IF filename.abs THEN filename.segs ELSE p \o filename.segs

NoLocation ==
    [found |-> FALSE, is_gcs |-> FALSE, bucket |-> "", path |-> <<>>, source |-> 0]
GcsLocation(bucket, blob_path, i) ==
    [found |-> TRUE, is_gcs |-> TRUE, bucket |-> bucket, path |-> blob_path, source |-> i]
LocalLocation(file_path, i) ==
    [found |-> TRUE, is_gcs |-> FALSE, bucket |-> "", path |-> file_path, source |-> i]

\* blob.exists()
blob_exists(g, bucket, blob_path) ==
    bucket \in DOMAIN g /\ blob_path \in DOMAIN g[bucket]

\* find_file_in_session, a remote slide path that names one object:
\* prefix and "." in prefix.rsplit("/", 1)[-1]
is_single_object(prefix) == prefix # <<>> /\ HasDot(BaseName(prefix))

\* find_file_in_session: what the i-th slide path yields for the filename
\* (a remote call that raises is caught and the path skipped)
match_slide_path(f, g, slide_path, i, filename, lookup_raises) ==
    IF is_gcs_path(slide_path)
    THEN IF lookup_raises THEN NoLocation
         ELSE LET bucket_name == parse_gcs_location(slide_path)[1]
                  prefix == parse_gcs_location(slide_path)[2]
              IN  IF is_single_object(prefix)
                  THEN IF is_name(filename, BaseName(prefix))
                          /\ blob_exists(g, bucket_name, prefix)
                       THEN GcsLocation(bucket_name, prefix, i)
                       ELSE NoLocation
                  ELSE LET blob_path == join_blob_path(prefix, filename.segs)
                       IN  IF blob_exists(g, bucket_name, blob_path)
                           THEN GcsLocation(bucket_name, blob_path, i)
                           ELSE NoLocation
    ELSE LET p == slide_path.segs
         IN  IF is_file(f, p)
             THEN IF is_name(filename, BaseName(p))
                  THEN LocalLocation(p, i) ELSE NoLocation
             ELSE LET file_path == joinpath(p, filename)
                  IN  IF exists(f, file_path)
                      THEN LocalLocation(file_path, i) ELSE NoLocation

RECURSIVE find_file_from(_, _, _, _, _, _)
find_file_from(f, g, slide_paths, i, filename, lookup_raises) ==
    IF i > Len(slide_paths) THEN NoLocation
    ELSE LET hit == match_slide_path(f, g, slide_paths[i], i, filename, lookup_raises)
         IN  IF hit.found THEN hit
             ELSE find_file_from(f, g, slide_paths, i + 1, filename, lookup_raises)

\* a search that lets a later slide path override an earlier one
RECURSIVE find_file_last(_, _, _, _, _, _)
find_file_last(f, g, slide_paths, i, filename, lookup_raises) ==
    IF i < 1 THEN NoLocation
    ELSE LET hit == match_slide_path(f, g, slide_paths[i], i, filename, lookup_raises)
         IN  IF hit.found THEN hit
             ELSE find_file_last(f, g, slide_paths, i - 1, filename, lookup_raises)

find_file_in_session_last(f, g, slide_paths, filename, lookup_raises) ==
    find_file_last(f, g, slide_paths, Len(slide_paths), filename, lookup_raises)

\* find_file_in_session: the first slide path, in order, that has the file
find_file_in_session(f, g, slide_paths, filename, lookup_raises) ==
    find_file_from(f, g, slide_paths, 1, filename, lookup_raises)

\* a check that authorizes every path
is_authorized_always(f, slide_paths, file_path) == TRUE

\* serve_raw_slide, the security check of a local file: its resolved path is
\* a declared file, or lies in a declared directory
is_authorized(f, slide_paths, file_path) ==
    LET resolved_file == resolve(f, file_path)
    IN  \E i \in 1..Len(slide_paths) :
            /\ ~is_gcs_path(slide_paths[i])
            /\ LET resolved_slide_path == resolve(f, slide_paths[i].segs)
               IN  IF is_file(f, resolved_slide_path)
                   THEN resolved_file = resolved_slide_path
                   ELSE is_relative_to(resolved_file, resolved_slide_path)

\* what goes wrong in the remote store during one request: nothing, a call
\* of the lookup (client missing, exists() raising), or a call of the
\* transfer (reload() or download_as_bytes() raising)
Faults == {"none", "lookup", "transfer"}

\* serve_raw_slide, after the session was found: the response
serve_raw_slide(f, g, session, filename, h, fault) ==
    LET location == find_file_in_session(f, g, session.slide_paths, filename,
                                         fault = "lookup")
    IN  IF ~location.found THEN HTTPException(404)
        ELSE IF location.is_gcs
        THEN gcs_response(g[location.bucket][location.path], h, fault = "transfer")
        ELSE IF ~is_authorized(f, session.slide_paths, location.path)
        THEN HTTPException(403)
        \* a directory: open() raises with a Range header, and without one
        \* FileResponse fails when it is sent; both end as a server error
        ELSE IF ~is_file(f, location.path) THEN HTTPException(500)
        ELSE local_response(file_bytes(f, location.path), h)

\* the text of the filename a route captured
filename_text(filename) ==
    (IF filename.abs THEN <<"/">> ELSE <<>>) \o Text(filename.segs)

\* content_type_map.get(ext, 'application/octet-stream'), ext being the
\* lowered text after the last dot of the filename
content_type(filename) ==
    LET text == filename_text(filename)
        ext == IF HasDot(text) THEN AfterLastDot(text) ELSE <<>>
    IN  IF Len(ext) = 1 /\ lower(ext[1]) \in {"svs", "tif", "tiff"}
        THEN "image/tiff"
        ELSE "application/octet-stream"

\* the headers head_raw_slide sets (Content-Type and Content-Length apart)
head_headers ==
    [allow_origin |-> "*",
     allow_methods |-> {"GET", "HEAD", "OPTIONS"},
     allow_headers |-> {},
     expose_headers |-> {"Content-Length", "Content-Type", "Accept-Ranges"},
     accept_ranges |-> "bytes"]

HeadResponse(status, content_length, type, headers) ==
    [status |-> status, body |-> <<>>, content_length |-> content_length,
     content_type |-> type, headers |-> headers]

\* an HTTPException raised by head_raw_slide
HeadException(status) ==
    HeadResponse(status, -1, "application/json", error_headers)

\* head_raw_slide, after the session was found: the response.  There is no
\* security check on this path.
head_raw_slide(f, g, session, filename, fault) ==
    LET location == find_file_in_session(f, g, session.slide_paths, filename,
                                         fault = "lookup")
    IN  IF ~location.found THEN HeadException(404)
        ELSE IF location.is_gcs
        THEN IF fault = "transfer" THEN HeadException(500)
             ELSE LET file_size == Len(g[location.bucket][location.path])
                  IN  IF file_size = 0 THEN HeadException(404)
                      ELSE HeadResponse(200, file_size, content_type(filename),
                                        head_headers)
        ELSE HeadResponse(200, st_size(f, location.path),
                          content_type(filename), head_headers)

----------------------------------------------------------------------------
(* app.py: the listing of the slides of a session *)

\* ALLOWED_EXTENSIONS of session_manager.py
ALLOWED_EXTENSIONS ==
    {"svs", "tif", "tiff", "vms", "vmu", "ndpi", "scn", "mrxs", "svslide", "bif"}

\* allowed_file: the name has a dot and the lowered text after its last dot
\* is an allowed extension
allowed_file(name) ==
    /\ HasDot(name)
    /\ Len(AfterLastDot(name)) = 1
    /\ lower(AfterLastDot(name)[1]) \in ALLOWED_EXTENSIONS

\* PurePath.stem: the name without its last suffix
stem(name) ==
    IF HasDot(name) /\ Len(AfterLastDot(name)) < Len(name) - 1
                    /\ AfterLastDot(name) # <<>>
    THEN SubSeq(name, 1, Len(name) - Len(AfterLastDot(name)) - 1)
    ELSE name

\* the elements of a set in some order, and a sequence backwards
RECURSIVE Enumerate(_)
Enumerate(S) ==
    IF S = {} THEN <<>>
    ELSE LET x == CHOOSE y \in S : TRUE IN <<x>> \o Enumerate(S \ {x})
Reverse(q) == [i \in 1..Len(q) |-> q[Len(q) + 1 - i]]

\* Path.iterdir(): the children of a directory, in an order the filesystem
\* chooses (`backwards` picks between two)
iterdir(f, p, backwards) ==
    LET rp == Stat(f, <<>>, p, MaxLinks)
        children == { Append(p, BaseName(q)) :
                        q \in {r \in DOMAIN f : Parent(r) = rp} }
    IN  IF backwards THEN Reverse(Enumerate(children)) ELSE Enumerate(children)

\* text.startswith(prefix), on sequences of pieces
startswith(text, prefix) ==
    Len(prefix) <= Len(text) /\ SubSeq(text, 1, Len(prefix)) = prefix

\* bucket.list_blobs(prefix=prefix): the keys of the objects whose name
\* starts with the prefix text, in the order the store returns them
list_blobs(g, bucket, prefix, backwards) ==
    LET keys == IF bucket \in DOMAIN g
                THEN { k \in DOMAIN g[bucket] : startswith(Text(k), Text(prefix)) }
                ELSE {}
    IN  IF backwards THEN Reverse(Enumerate(keys)) ELSE Enumerate(keys)

\* an element of all_slides
SlideEntry(filename, size) ==
    [name |-> stem(filename), filename |-> filename, size |-> size,
     viewable |-> TRUE]

\* seen_filenames, which holds the filename of every element of all_slides
seen_filenames(all_slides) ==
    { all_slides[i].filename : i \in 1..Len(all_slides) }

\* "if filename not in seen_filenames: all_slides.append(...)"
append_unseen(all_slides, filename, size) ==
    IF filename \in seen_filenames(all_slides) THEN all_slides
    ELSE Append(all_slides, SlideEntry(filename, size))

\* list_slides, a remote prefix: the loop over the listed objects
RECURSIVE list_blob_entries(_, _, _, _)
list_blob_entries(g, bucket, keys, all_slides) ==
    IF keys = <<>> THEN all_slides
    ELSE LET filename == BaseName(Head(keys))
             next == IF filename = <<>> \/ ~allowed_file(filename)
                     THEN all_slides
                     ELSE append_unseen(all_slides, filename,
                                        Len(g[bucket][Head(keys)]))
         IN  list_blob_entries(g, bucket, Tail(keys), next)

\* list_slides, a local directory: the loop over its children
RECURSIVE list_dir_entries(_, _, _)
list_dir_entries(f, children, all_slides) ==
    IF children = <<>> THEN all_slides
    ELSE LET fp == Head(children)
             next == IF is_file(f, fp) /\ allowed_file(BaseName(fp))
                     THEN append_unseen(all_slides, BaseName(fp), st_size(f, fp))
                     ELSE all_slides
         IN  list_dir_entries(f, Tail(children), next)

\* list_slides, a remote slide path that names one object: the prefix text
\* ends in an allowed extension
is_single_file(prefix) ==
    /\ prefix # <<>>
    /\ HasDot(Text(prefix))
    /\ Len(AfterLastDot(Text(prefix))) = 1
    /\ lower(AfterLastDot(Text(prefix))[1]) \in ALLOWED_EXTENSIONS

\* list_slides: what one slide path adds to all_slides.  A blob made by
\* bucket.blob() has no metadata, and exists() loads none, so `blob.size or
\* 0` of a single remote object is 0.
list_slide_path(f, g, slide_path, all_slides, backwards, unavailable) ==
    IF is_gcs_path(slide_path)
    THEN IF unavailable THEN all_slides
         ELSE LET bucket_name == parse_gcs_location(slide_path)[1]
                  prefix == parse_gcs_location(slide_path)[2]
              IN  IF is_single_file(prefix)
                  THEN IF blob_exists(g, bucket_name, prefix)
                       THEN append_unseen(all_slides, BaseName(prefix), 0)
                       ELSE all_slides
                  ELSE list_blob_entries(g, bucket_name,
                           list_blobs(g, bucket_name, prefix, backwards),
                           all_slides)
    ELSE LET p == slide_path.segs
         IN  IF ~exists(f, p) THEN all_slides
             ELSE IF is_file(f, p)
             THEN IF allowed_file(BaseName(p))
                  THEN append_unseen(all_slides, BaseName(p), st_size(f, p))
                  ELSE all_slides
             ELSE list_dir_entries(f, iterdir(f, p, backwards), all_slides)

RECURSIVE list_from(_, _, _, _, _, _, _)
list_from(f, g, slide_paths, i, all_slides, backwards, unavailable) ==
    IF i > Len(slide_paths) THEN all_slides
    ELSE list_from(f, g, slide_paths, i + 1,
                   list_slide_path(f, g, slide_paths[i], all_slides,
                                   backwards, unavailable),
                   backwards, unavailable)

\* what goes wrong in the remote store during one listing: nothing, the
\* client is not there (remote paths are skipped), or a call raises
ListFaults == {"none", "unavailable", "raises"}

ListResponse(status, slides) == [status |-> status, slides |-> slides]

\* list_slides, after the session was found: the response
list_slides(f, g, session, backwards, fault) ==
    IF fault = "raises"
       /\ \E i \in 1..Len(session.slide_paths) : is_gcs_path(session.slide_paths[i])
    THEN ListResponse(500, <<>>)
    ELSE ListResponse(200, list_from(f, g, session.slide_paths, 1, <<>>,
                                     backwards, fault = "unavailable"))

----------------------------------------------------------------------------
(* Overlay files: Session.find_overlay_file and the two routes that use it *)

DENSITY == <<"_density", ".", "png">>
METADATA == <<"_metadata", ".", "json">>
GRID == <<"_grid", ".", "json">>

\* the suffixes serve_overlay_file tries, in its order
OverlaySuffixes == <<DENSITY, METADATA, GRID>>

\* find_overlay_file, first loop: the first local overlay path, from the
\* i-th on, that has the target (NoPath if none)
RECURSIVE find_in_overlay_paths(_, _, _, _)
find_in_overlay_paths(f, overlay_paths, i, target) ==
    IF i > Len(overlay_paths) THEN NoPath
    ELSE IF ~is_gcs_path(overlay_paths[i])
            /\ exists(f, Append(overlay_paths[i].segs, target))
         THEN Append(overlay_paths[i].segs, target)
         ELSE find_in_overlay_paths(f, overlay_paths, i + 1, target)

\* find_overlay_file, second loop: the first local slide path, from the
\* i-th on, whose directory (or whose parent, for a file) has the target
RECURSIVE find_in_slide_paths(_, _, _, _)
find_in_slide_paths(f, slide_paths, i, target) ==
    IF i > Len(slide_paths) THEN NoPath
    ELSE IF is_gcs_path(slide_paths[i])
         THEN find_in_slide_paths(f, slide_paths, i + 1, target)
         ELSE LET p == slide_paths[i].segs
                  check_path == IF is_dir(f, p) THEN Append(p, target)
                                ELSE Append(Parent(p), target)
              IN  IF exists(f, check_path) THEN check_path
                  ELSE find_in_slide_paths(f, slide_paths, i + 1, target)

\* a search that looks in the slide paths before the overlay paths
find_overlay_file_slides_first(f, session, slide_name, suffix) ==
    LET target == slide_name \o suffix
        hit == find_in_slide_paths(f, session.slide_paths, 1, target)
    IN  IF hit # NoPath THEN hit
        ELSE find_in_overlay_paths(f, session.overlay_paths, 1, target)

\* Session.find_overlay_file(slide_name, suffix)
find_overlay_file(f, session, slide_name, suffix) ==
    LET target == slide_name \o suffix
        hit == find_in_overlay_paths(f, session.overlay_paths, 1, target)
    IN  IF hit # NoPath THEN hit
        ELSE find_in_slide_paths(f, session.slide_paths, 1, target)

\* filename.endswith(suffix), on names
endswith(name, suffix) ==
    Len(suffix) <= Len(name)
    /\ SubSeq(name, Len(name) - Len(suffix) + 1, Len(name)) = suffix

OverlayResponse(status, body) == [status |-> status, body |-> body]

\* serve_overlay_file, after the session was found: the first suffix the
\* filename ends with decides; FileResponse of what is found, else 404
serve_overlay_file(f, session, filename) ==
    LET matching == { i \in 1..Len(OverlaySuffixes) :
                        endswith(filename, OverlaySuffixes[i]) }
    IN  IF matching = {} THEN OverlayResponse(404, <<>>)
        ELSE LET i == CHOOSE j \in matching : \A k \in matching : j <= k
                 suffix == OverlaySuffixes[i]
                 slide_name == SubSeq(filename, 1, Len(filename) - Len(suffix))
                 file_path == find_overlay_file(f, session, slide_name, suffix)
             IN  IF file_path = NoPath THEN OverlayResponse(404, <<>>)
                 ELSE IF ~is_file(f, file_path) THEN OverlayResponse(500, <<>>)
                 ELSE OverlayResponse(200, file_bytes(f, file_path))

\* get_overlay_config, after the session was found: the document
get_overlay_config(f, session, slide_name) ==
    LET density == find_overlay_file(f, session, slide_name, DENSITY)
        metadata == find_overlay_file(f, session, slide_name, METADATA)
        grid == find_overlay_file(f, session, slide_name, GRID)
    IN  [available |-> density # NoPath /\ metadata # NoPath,
         density_image |-> density # NoPath,
         metadata |-> metadata # NoPath,
         grid |-> grid # NoPath]

----------------------------------------------------------------------------
(* app.py: the two routes that change the slides of a session.  Each       *)
(* returns its response and the filesystem it leaves behind.                *)

\* an HTTPException, or the JSON document of a success, with its detail
MutationResponse(status, detail) == [status |-> status, detail |-> detail]

Mutation(reply, f) == [reply |-> reply, fs |-> f]

\* the texts of the details the two routes raise
DetailDeleteNotFound == "Slide not found or is in GCS (delete not supported)"
DetailUploadGcsOnly == "Upload is not supported for GCS-only sessions"

\* the directory entry a path names: its parent followed through symlinks,
\* its last name not
entry(f, p) ==
    LET d == Stat(f, <<>>, Parent(p), MaxLinks)
    IN  IF d = NoPath \/ p = <<>> THEN NoPath ELSE Append(d, BaseName(p))

\* Path.unlink(): the filesystem without the entry (the entry itself, a
\* symlink is not followed)
unlink(f, p) == [q \in DOMAIN f \ {p} |-> f[q]]

\* Path.unlink() raises: the entry is missing, or it is a directory
unlink_raises(f, p) == p \notin DOMAIN f \/ f[p].kind = "dir"

\* p.glob(slide_name + ".*"): the children of the directory whose name
\* starts with the slide name and a dot, in the directory's order
glob_slide(f, p, slide_name, backwards) ==
    SelectSeq(iterdir(f, p, backwards),
              LAMBDA q : startswith(BaseName(q), slide_name \o <<".">>))

\* "for sf in slide_files: sf.unlink()": the filesystem after the loop, and
\* whether an unlink raised (the loop stops there)
RECURSIVE unlink_all(_, _)
unlink_all(f, slide_files) ==
    IF slide_files = <<>> THEN [fs |-> f, raised |-> FALSE]
    ELSE LET sf == entry(f, Head(slide_files))
         IN  IF unlink_raises(f, sf) THEN [fs |-> f, raised |-> TRUE]
             ELSE unlink_all(unlink(f, sf), Tail(slide_files))

\* delete_slide, the loop over the slide paths from the i-th on: remote
\* paths are skipped, the first local path with a match ends the loop
RECURSIVE delete_from(_, _, _, _, _)
delete_from(f, slide_paths, i, slide_name, backwards) ==
    IF i > Len(slide_paths)
    THEN Mutation(MutationResponse(404, DetailDeleteNotFound), f)
    ELSE IF is_gcs_path(slide_paths[i])
    THEN delete_from(f, slide_paths, i + 1, slide_name, backwards)
    ELSE LET p == slide_paths[i].segs
         IN  IF is_dir(f, p)
             THEN LET slide_files == glob_slide(f, p, slide_name, backwards)
                      done == unlink_all(f, slide_files)
                  IN  IF slide_files = <<>>
                      THEN delete_from(f, slide_paths, i + 1, slide_name, backwards)
                      ELSE IF done.raised
                      THEN Mutation(MutationResponse(500, "error"), done.fs)
                      ELSE Mutation(MutationResponse(200, "Slide deleted"), done.fs)
             ELSE IF stem(BaseName(p)) = slide_name
             THEN IF unlink_raises(f, entry(f, p))
                  THEN Mutation(MutationResponse(500, "error"), f)
                  ELSE Mutation(MutationResponse(200, "Slide deleted"),
                                unlink(f, entry(f, p)))
             ELSE delete_from(f, slide_paths, i + 1, slide_name, backwards)

\* delete_slide, after the session was found
delete_slide(f, session, slide_name, backwards) ==
    delete_from(f, session.slide_paths, 1, slide_name, backwards)

\* upload_file: the directory it writes to, the first local slide path (or
\* its parent if it is not a directory); NoPath if every path is remote
RECURSIVE upload_dir_from(_, _, _)
upload_dir_from(f, slide_paths, i) ==
    IF i > Len(slide_paths) THEN NoPath
    ELSE IF is_gcs_path(slide_paths[i]) THEN upload_dir_from(f, slide_paths, i + 1)
    ELSE IF is_dir(f, slide_paths[i].segs) THEN slide_paths[i].segs
    ELSE Parent(slide_paths[i].segs)

\* upload_file, after the session was found: `filename` is the name of the
\* uploaded file (<<>> if none), `content` its bytes
upload_file(f, session, filename, content) ==
    LET upload_dir == upload_dir_from(f, session.slide_paths, 1)
        file_path == Append(upload_dir, filename)
    IN  IF upload_dir = NoPath
        THEN Mutation(MutationResponse(400, DetailUploadGcsOnly), f)
        ELSE IF filename = <<>>
        THEN Mutation(MutationResponse(400, "No file selected"), f)
        ELSE IF ~allowed_file(filename)
        THEN Mutation(MutationResponse(400, "File type not supported"), f)
        ELSE IF exists(f, upload_dir) /\ ~is_dir(f, upload_dir)
        THEN Mutation(MutationResponse(500, "error"), f)
        ELSE IF ~exists(f, upload_dir) /\ ~is_dir(f, Parent(upload_dir))
        THEN Mutation(MutationResponse(500, "error"), f)
        ELSE LET made == IF exists(f, upload_dir) THEN f
                         ELSE (upload_dir :> DirNode) @@ f
                 written == resolve(made, file_path)
             IN  IF is_dir(made, written) \/ ~is_dir(made, Parent(written))
                 THEN Mutation(MutationResponse(500, "error"), made)
                 ELSE Mutation(MutationResponse(200, "uploaded"),
                               (written :> FileNode(content)) @@ made)

----------------------------------------------------------------------------
(* The storage the registry specification runs against. *)

D1 == Plain("d1")
D2 == Plain("d2")
OUT == Plain("out")
OV == Plain("ov")
GONE == Plain("gone")
A_SVS == Nm("a", "svs")
B_SVS == Nm("b", "svs")
SECRET == Plain("secret")
LNK == Plain("lnk")

\* the bytes of a stored object: `n` bytes, distinct per position and object
Bytes(id, n) == [i \in 1..n |-> 10 * id + i]

Fs0 ==
    ( <<D1>> :> DirNode ) @@ ( <<D1, A_SVS>> :> FileNode(Bytes(1, 2)) ) @@
    ( <<OV>> :> DirNode )

Gcs0 == [b \in {"bkt"} |-> ( <<Plain("p"), A_SVS>> :> Bytes(5, 2) )]

\* what a client (or the command line) may declare: a slide list and an
\* overlay list
Declared(slides, overlay) == [slides |-> slides, overlay |-> overlay]
Declarations ==
    { Declared(<<LocalPath(<<D1>>)>>, <<LocalPath(<<OV>>)>>),
      Declared(<<GcsPath("gs://", "bkt", <<Plain("p")>>)>>, <<>>),
      Declared(<<LocalPath(<<GONE>>), LocalPath(<<D1>>)>>, <<LocalPath(<<GONE>>)>>) }

\* tokens a request may carry: every token uuid4() can return, and one that
\* is never issued
RequestTokens == Tokens \cup {0}

\* seconds the clock may jump between two operations (29, 30, 31 minutes)
ClockSteps == {29 * 60, 30 * 60, 31 * 60}
\* seconds the clock may advance between two utcnow() calls of one operation
ClockDrift == {0, 1}

----------------------------------------------------------------------------
(* The registry's operations, one action per handler. *)

Outcome(op, token, status, session) ==
    [op |-> op, token |-> token, status |-> status, session |-> session]

\* the outcome of a creation, with the lists that were declared
CreateOutcome(op, token, status, session, slides, overlay) ==
    [op |-> op, token |-> token, status |-> status, session |-> session,
     slides |-> slides, overlay |-> overlay]

\* the outcome of DELETE /api/sessions/{token}: {"deleted": deleted}
DeleteOutcome(token, deleted) ==
    [op |-> "delete", token |-> token, status |-> 200, session |-> None,
     deleted |-> deleted]

Init ==
    /\ sessions = << >>
    /\ issued = {}
    /\ now = 0
    /\ cleanup_task = "None"
    /\ phase = "init"
    /\ fs = Fs0
    /\ gcs = Gcs0
    /\ last = Outcome("none", 0, 0, None)
    /\ loop = NoLoop

\* the store of a new session under a fresh token; the clock may advance
\* between the two utcnow() calls of the Session constructor
StoreNewSession(op, slide_paths, overlay_paths) ==
    \E token \in FreshTokens(issued), d \in ClockDrift :
        /\ now + d <= MaxNow
        /\ LET session == create_session(fs, token, slide_paths, overlay_paths,
                                         now, now + d)
           IN  /\ sessions' = (token :> session) @@ sessions
               /\ last' = CreateOutcome(op, token, 200, session,
                                        slide_paths, overlay_paths)
        /\ issued' = issued \cup {token}
        /\ now' = now + d

\* startup_event: the default session of the command line, then the loop
Startup ==
    /\ phase = "init"
    /\ \E args \in Declarations :
           StoreNewSession("startup", args.slides, args.overlay)
    /\ cleanup_task' = "Task"
    /\ phase' = "serving"
    /\ UNCHANGED <<fs, gcs, loop>>

\* POST /api/sessions
ApiCreateSession ==
    /\ phase = "serving"
    /\ \E req \in Declarations :
           IF \E i \in 1..Len(req.slides) :
                  /\ ~is_gcs_path(req.slides[i])
                  /\ ~exists(fs, req.slides[i].segs)
           THEN /\ last' = CreateOutcome("create", 0, 400, None,
                                         req.slides, req.overlay)
                /\ UNCHANGED <<sessions, issued, now>>
           ELSE StoreNewSession("create", req.slides, req.overlay)
    /\ UNCHANGED <<cleanup_task, phase, fs, gcs, loop>>

\* POST /api/sessions/{token}/heartbeat
Heartbeat ==
    /\ phase = "serving"
    /\ \E token \in RequestTokens :
           LET session == get_session(sessions, token, now)
           IN  /\ sessions' = sessions_after_get(sessions, token, now)
               /\ last' = IF session = None
                          THEN Outcome("heartbeat", token, 404, None)
                          ELSE Outcome("heartbeat", token, 200, session)
    /\ UNCHANGED <<issued, now, cleanup_task, phase, fs, gcs, loop>>

\* get_session_or_404, as GET /{token}/ uses it
SessionIndex ==
    /\ phase = "serving"
    /\ \E token \in RequestTokens :
           LET session == get_session(sessions, token, now)
           IN  /\ sessions' = sessions_after_get(sessions, token, now)
               /\ last' = IF session = None
                          THEN Outcome("index", token, 404, None)
                          ELSE Outcome("index", token, 200, session)
    /\ UNCHANGED <<issued, now, cleanup_task, phase, fs, gcs, loop>>

\* DELETE /api/sessions/{token}
ApiDeleteSession ==
    /\ phase = "serving"
    /\ \E token \in RequestTokens :
           /\ sessions' = delete_session(sessions, token)
           /\ last' = DeleteOutcome(token, delete_session_found(sessions, token))
    /\ UNCHANGED <<issued, now, cleanup_task, phase, fs, gcs, loop>>

\* GET /api/sessions
ApiListSessions ==
    /\ phase = "serving"
    /\ last' = [op |-> "sessions", token |-> 0,
                status |-> list_sessions(sessions).status,
                summaries |-> list_sessions(sessions).sessions]
    /\ UNCHANGED <<sessions, issued, now, cleanup_task, phase, fs, gcs, loop>>

\* one iteration of the cleanup loop: cleanup_expired()
CleanupTick ==
    /\ cleanup_task = "Task"
    /\ sessions' = cleanup_expired(sessions, now)
    /\ last' = Outcome("cleanup", 0, Cardinality(expired(sessions, now)), None)
    /\ UNCHANGED <<issued, now, cleanup_task, phase, fs, gcs, loop>>

\* time passes
AdvanceClock ==
    /\ \E d \in ClockSteps : now + d <= MaxNow /\ now' = now + d
    /\ UNCHANGED <<sessions, issued, cleanup_task, phase, fs, gcs, last, loop>>

\* shutdown_event: stop_cleanup_loop()
Shutdown ==
    /\ phase = "serving"
    /\ phase' = "stopped"
    /\ cleanup_task' = "None"
    /\ last' = Outcome("shutdown", 0, 0, None)
    /\ UNCHANGED <<sessions, issued, now, fs, gcs, loop>>

Next ==
    \/ Startup
    \/ ApiCreateSession
    \/ Heartbeat
    \/ SessionIndex
    \/ ApiDeleteSession
    \/ CleanupTick
    \/ AdvanceClock
    \/ Shutdown

Spec == Init /\ [][Next]_vars

\* the registry with the cleanup loop scheduled: _loop sleeps for a bounded
\* time and then calls cleanup_expired(), again and again, so a tick that
\* has something to do is not postponed forever
SpecLive == Spec /\ WF_vars(CleanupTick)

----------------------------------------------------------------------------
(* The content server: GET /{token}/api/raw_slides/{filename:path} *)

ServeOutcome(token, filename, h, fault, location, reply) ==
    [op |-> "serve", token |-> token, filename |-> filename, range |-> h,
     fault |-> fault, location |-> location,
     status |-> reply.status, body |-> reply.body,
     content_length |-> reply.content_length,
     content_range |-> reply.content_range, headers |-> reply.headers]

\* serve_raw_slide: the whole handler
ServeRawSlide(token, filename, h, fault) ==
    /\ phase = "serving"
    /\ LET session == get_session(sessions, token, now)
       IN  /\ sessions' = sessions_after_get(sessions, token, now)
           /\ last' =
                IF session = None
                THEN ServeOutcome(token, filename, h, fault, NoLocation,
                                  HTTPException(404))
                ELSE ServeOutcome(token, filename, h, fault,
                        find_file_in_session(fs, gcs, session.slide_paths,
                                             filename, fault = "lookup"),
                        serve_raw_slide(fs, gcs, session, filename, h, fault))
    /\ UNCHANGED <<issued, now, cleanup_task, phase, fs, gcs, loop>>

HeadOutcome(token, filename, fault, location, reply) ==
    [op |-> "head", token |-> token, filename |-> filename, fault |-> fault,
     location |-> location,
     status |-> reply.status, body |-> reply.body,
     content_length |-> reply.content_length,
     content_type |-> reply.content_type, headers |-> reply.headers]

\* head_raw_slide: the whole handler
HeadRawSlide(token, filename, fault) ==
    /\ phase = "serving"
    /\ LET session == get_session(sessions, token, now)
       IN  /\ sessions' = sessions_after_get(sessions, token, now)
           /\ last' =
                IF session = None
                THEN HeadOutcome(token, filename, fault, NoLocation,
                                 HeadException(404))
                ELSE HeadOutcome(token, filename, fault,
                        find_file_in_session(fs, gcs, session.slide_paths,
                                             filename, fault = "lookup"),
                        head_raw_slide(fs, gcs, session, filename, fault))
    /\ UNCHANGED <<issued, now, cleanup_task, phase, fs, gcs, loop>>

(* The storage the content server specification runs against: two slide    *)
(* directories that both hold a.svs, a directory outside them with a file   *)
(* that may or may not exist, a symlink that leaves the first directory,    *)
(* and a bucket.                                                            *)

P == Plain("p")
Q == Plain("q")
Z_SVS == Nm("z", "svs")
\* a prefix whose last name has a dot and no slide extension
V1 == Nm("v", "1")
\* a name below a prefix
SUB == Plain("s")

FsServe(n, with_secret) ==
    ( <<D1>> :> DirNode ) @@ ( <<D1, A_SVS>> :> FileNode(Bytes(1, n)) ) @@
    ( <<D1, LNK>> :> LinkNode(<<OUT, SECRET>>) ) @@
    ( <<D2>> :> DirNode ) @@ ( <<D2, A_SVS>> :> FileNode(Bytes(2, 1)) ) @@
    ( <<D2, B_SVS>> :> FileNode(Bytes(3, 1)) ) @@
    ( <<OUT>> :> DirNode ) @@
    ( IF with_secret THEN <<OUT, SECRET>> :> FileNode(Bytes(4, 2)) ELSE << >> )

GcsServe(n) ==
    [b \in {"bkt"} |-> ( <<P, A_SVS>> :> Bytes(5, n) ) @@
                       ( <<Q, B_SVS>> :> Bytes(6, 1) ) @@
                       ( <<V1, A_SVS>> :> Bytes(7, 1) ) @@
                       ( <<P, SUB, B_SVS>> :> Bytes(8, 1) )]

ServeEnvironments ==
    { [fs |-> FsServe(n, TRUE), gcs |-> GcsServe(n)] : n \in 0..MaxSize }
    \cup { [fs |-> FsServe(1, FALSE), gcs |-> GcsServe(1)] }

GsP == GcsPath("gs://", "bkt", <<P>>)
GsQ == GcsPath("https://storage.googleapis.com/", "bkt", <<Q>>)
GsPA == GcsPath("gs://", "bkt", <<P, A_SVS>>)
GsV1 == GcsPath("gs://", "bkt", <<V1>>)

ServeSlideLists ==
    { <<LocalPath(<<D1>>)>>,
      <<LocalPath(<<D1>>), LocalPath(<<D2>>)>>,
      <<LocalPath(<<D2>>), LocalPath(<<D1>>)>>,
      <<GsP, LocalPath(<<D1>>)>>,
      <<LocalPath(<<D1>>), GsP>>,
      <<GsPA, LocalPath(<<D2>>)>>,
      <<LocalPath(<<D2, A_SVS>>), LocalPath(<<D1>>)>>,
      <<GsP>>,
      <<GsV1>>,
      <<GsQ, GsP>>,
      <<LocalPath(<<OUT>>), LocalPath(<<D1>>)>> }

Filenames ==
    { Filename(FALSE, <<A_SVS>>),
      Filename(FALSE, <<B_SVS>>),
      Filename(FALSE, <<Z_SVS>>),
      Filename(FALSE, <<Plain("a")>>),
      Filename(FALSE, <<LNK>>),
      Filename(FALSE, <<DotDot, OUT, SECRET>>),
      Filename(FALSE, <<DotDot, OUT>>),
      Filename(FALSE, <<DotDot, D2, A_SVS>>),
      Filename(TRUE, <<OUT, SECRET>>) }

RangeSymbols == {"bytes=", "-", "0", "1", "2", "x"}

\* every header of at most MaxHeaderLen symbols
Headers == UNION { [1..n -> RangeSymbols] : n \in 0..MaxHeaderLen }

ServeRequest(token, filename, h, fault) ==
    [token |-> token, filename |-> filename, range |-> h, fault |-> fault]

\* the requests: every header on a.svs; every filename and every fault with
\* no header and with one range; a request with an unknown token
ServeRequests ==
    { ServeRequest(1, Filename(FALSE, <<A_SVS>>), h, "none") : h \in Headers }
    \cup { ServeRequest(1, fn, h, fault) :
             fn \in Filenames, h \in {<<>>, <<"bytes=", "0", "-", "0">>},
             fault \in Faults }
    \cup { ServeRequest(0, Filename(FALSE, <<A_SVS>>), <<>>, "none") }

\* the server after startup_event created the default session at time 0
InitServe ==
    /\ \E env \in ServeEnvironments, slide_paths \in ServeSlideLists :
          /\ fs = env.fs
          /\ gcs = env.gcs
          /\ sessions = (1 :> create_session(env.fs, 1, slide_paths, <<>>, 0, 0))
    /\ issued = {1}
    /\ now = 0
    /\ cleanup_task = "Task"
    /\ phase = "serving"
    /\ last = Outcome("none", 0, 0, None)
    /\ loop = NoLoop

\* the probes: every filename and every fault, and an unknown token
HeadRequests ==
    { ServeRequest(1, fn, <<>>, fault) : fn \in Filenames, fault \in Faults }
    \cup { ServeRequest(0, Filename(FALSE, <<A_SVS>>), <<>>, "none") }

\* the headers of the fetch that follows a probe
FollowingHeaders ==
    { <<>>, <<"bytes=", "0", "-", "0">>, <<"bytes=", "0", "-">>,
      <<"bytes=", "2", "-">> }

\* one fetch, or one probe and then a fetch of what was probed
NextServe ==
    \/ /\ last.op = "none"
       /\ \E req \in ServeRequests :
             ServeRawSlide(req.token, req.filename, req.range, req.fault)
    \/ /\ last.op = "none"
       /\ \E req \in HeadRequests :
             HeadRawSlide(req.token, req.filename, req.fault)
    \/ /\ last.op = "head"
       /\ \E h \in FollowingHeaders :
             ServeRawSlide(last.token, last.filename, h, last.fault)

SpecServe == InitServe /\ [][NextServe]_vars

----------------------------------------------------------------------------
(* The slide listing: GET /{token}/api/slides *)

ListOutcome(token, backwards, fault, reply) ==
    [op |-> "list", token |-> token, backwards |-> backwards, fault |-> fault,
     status |-> reply.status, slides |-> reply.slides]

\* list_slides: the whole handler
ListSlides(token, backwards, fault) ==
    /\ phase = "serving"
    /\ LET session == get_session(sessions, token, now)
       IN  /\ sessions' = sessions_after_get(sessions, token, now)
           /\ last' =
                IF session = None
                THEN ListOutcome(token, backwards, fault, ListResponse(404, <<>>))
                ELSE ListOutcome(token, backwards, fault,
                                 list_slides(fs, gcs, session, backwards, fault))
    /\ UNCHANGED <<issued, now, cleanup_task, phase, fs, gcs, loop>>

(* The storage the listing specification runs against: two directories     *)
(* that share a name, files without an allowed extension, an upper-case     *)
(* extension, a directory named like a slide, and a bucket with a nested    *)
(* object of the same base name.                                            *)

N_TXT == Nm("n", "txt")
C_SVS == Nm("c", "svs")
E_SVS == Nm("e", "SVS")

FsList(n) ==
    ( <<D1>> :> DirNode ) @@ ( <<D1, A_SVS>> :> FileNode(Bytes(1, n)) ) @@
    ( <<D1, N_TXT>> :> FileNode(Bytes(7, 1)) ) @@
    ( <<D1, C_SVS>> :> DirNode ) @@
    ( <<D1, E_SVS>> :> FileNode(Bytes(4, 3)) ) @@
    ( <<D2>> :> DirNode ) @@ ( <<D2, A_SVS>> :> FileNode(Bytes(2, 1)) ) @@
    ( <<D2, B_SVS>> :> FileNode(Bytes(3, 3)) )

GcsList(n) ==
    [b \in {"bkt"} |-> ( <<P, A_SVS>> :> Bytes(5, n) ) @@
                       ( <<P, SUB, A_SVS>> :> Bytes(6, 1) ) @@
                       ( <<P, N_TXT>> :> Bytes(8, 1) ) @@
                       ( <<Q, B_SVS>> :> Bytes(9, 2) )]

ListEnvironments ==
    { [fs |-> FsList(n), gcs |-> GcsList(m)] : n \in 0..MaxSize, m \in 2..MaxSize }

ListSlideLists ==
    { <<LocalPath(<<D1>>), LocalPath(<<D2>>)>>,
      <<LocalPath(<<D2>>), LocalPath(<<D1>>)>>,
      <<GsP, LocalPath(<<D1>>)>>,
      <<LocalPath(<<D1>>), GsP>>,
      <<GsPA, LocalPath(<<D1>>)>>,
      <<LocalPath(<<D2>>), GsPA>>,
      <<LocalPath(<<D1, A_SVS>>), LocalPath(<<D2>>)>>,
      <<LocalPath(<<D1, N_TXT>>), LocalPath(<<D2>>)>>,
      <<GsQ, GsP, LocalPath(<<D2>>)>>,
      <<GsP>> }

\* the server after startup_event created the default session at time 0
InitList ==
    /\ \E env \in ListEnvironments, slide_paths \in ListSlideLists :
          /\ fs = env.fs
          /\ gcs = env.gcs
          /\ sessions = (1 :> create_session(env.fs, 1, slide_paths, <<>>, 0, 0))
    /\ issued = {1}
    /\ now = 0
    /\ cleanup_task = "Task"
    /\ phase = "serving"
    /\ last = Outcome("none", 0, 0, None)
    /\ loop = NoLoop

\* one request for the listing
NextList ==
    /\ last.op = "none"
    /\ \E token \in {0, 1}, backwards \in BOOLEAN, fault \in ListFaults :
          ListSlides(token, backwards, fault)

SpecList == InitList /\ [][NextList]_vars

(* A client that browses: the listing of a session, and then a probe of    *)
(* one of the entries the listing reported, with the storage unchanged in   *)
(* between.                                                                 *)

\* the listing, and then the probe of a listed filename
NextBrowse ==
    \/ /\ last.op = "none"
       /\ \E backwards \in BOOLEAN : ListSlides(1, backwards, "none")
    \/ /\ last.op = "list"
       /\ \E k \in 1..Len(last.slides) :
             HeadRawSlide(last.token,
                          Filename(FALSE, <<last.slides[k].filename>>), "none")

\* the sessions and storages of the listing and of the content server
InitBrowse == InitList \/ InitServe

SpecBrowse == InitBrowse /\ [][NextBrowse]_vars

----------------------------------------------------------------------------
(* The whole site: the registry's operations and every session-scoped      *)
(* request, on sessions that startup_event and POST /api/sessions created.  *)

\* the 404 of get_session_or_404 carries no configuration
NoConfig ==
    [available |-> FALSE, density_image |-> FALSE, metadata |-> FALSE,
     grid |-> FALSE]

\* get_overlay_config: the whole handler
OverlayConfig(token, slide_name) ==
    /\ phase = "serving"
    /\ LET session == get_session(sessions, token, now)
       IN  /\ sessions' = sessions_after_get(sessions, token, now)
           /\ last' =
                IF session = None
                THEN [op |-> "overlay-config", token |-> token,
                      slide_name |-> slide_name, status |-> 404,
                      config |-> NoConfig]
                ELSE [op |-> "overlay-config", token |-> token,
                      slide_name |-> slide_name, status |-> 200,
                      config |-> get_overlay_config(fs, session, slide_name)]
    /\ UNCHANGED <<issued, now, cleanup_task, phase, fs, gcs, loop>>

\* serve_overlay_file: the whole handler
OverlayFile(token, filename) ==
    /\ phase = "serving"
    /\ LET session == get_session(sessions, token, now)
           reply == IF session = None THEN OverlayResponse(404, <<>>)
                    ELSE serve_overlay_file(fs, session, filename)
       IN  /\ sessions' = sessions_after_get(sessions, token, now)
           /\ last' = [op |-> "overlay-file", token |-> token,
                       filename |-> filename, status |-> reply.status,
                       body |-> reply.body]
    /\ UNCHANGED <<issued, now, cleanup_task, phase, fs, gcs, loop>>

FsSite ==
    FsServe(2, TRUE) @@ ( <<OV>> :> DirNode ) @@
    ( <<OV, Plain("a") \o DENSITY>> :> FileNode(Bytes(7, 1)) ) @@
    ( <<OV, Plain("a") \o METADATA>> :> FileNode(Bytes(8, 1)) ) @@
    ( <<D1, Plain("a") \o GRID>> :> FileNode(Bytes(9, 1)) )

GcsSite == GcsServe(2)

\* the slide and overlay lists of the two sessions of the site
SiteDeclarations ==
    { Declared(<<LocalPath(<<D1>>), GsP>>, <<LocalPath(<<OV>>)>>),
      Declared(<<GsP, LocalPath(<<D2>>)>>, <<>>),
      Declared(<<LocalPath(<<D2, A_SVS>>)>>, <<LocalPath(<<OV>>)>>) }

SiteFilenames == { Filename(FALSE, <<A_SVS>>), Filename(FALSE, <<Z_SVS>>) }
SiteHeaders == { <<>>, <<"bytes=", "0", "-", "0">> }
SiteOverlayNames == { Plain("a"), Plain("z") }

\* the server with the bootstrap session and one created by the admin
\* request, both at time 0
InitSite ==
    /\ fs = FsSite
    /\ gcs = GcsSite
    /\ \E d1 \in SiteDeclarations, d2 \in SiteDeclarations :
          /\ d1 # d2
          /\ sessions = (1 :> create_session(FsSite, 1, d1.slides, d1.overlay, 0, 0))
                        @@ (2 :> create_session(FsSite, 2, d2.slides, d2.overlay, 0, 0))
    /\ issued = {1, 2}
    /\ now = 0
    /\ cleanup_task = "Task"
    /\ phase = "serving"
    /\ last = Outcome("none", 0, 0, None)
    /\ loop = NoLoop

NextSite ==
    \/ Heartbeat
    \/ ApiListSessions
    \/ SessionIndex
    \/ ApiDeleteSession
    \/ CleanupTick
    \/ AdvanceClock
    \/ \E token \in RequestTokens, filename \in SiteFilenames, h \in SiteHeaders :
           ServeRawSlide(token, filename, h, "none")
    \/ \E token \in RequestTokens, filename \in SiteFilenames :
           HeadRawSlide(token, filename, "none")
    \/ \E token \in RequestTokens : ListSlides(token, FALSE, "none")
    \/ \E token \in RequestTokens, slide_name \in SiteOverlayNames :
           OverlayConfig(token, slide_name)
    \/ \E token \in RequestTokens, slide_name \in SiteOverlayNames :
           OverlayFile(token, slide_name \o DENSITY)

SpecSite == InitSite /\ [][NextSite]_vars

----------------------------------------------------------------------------
(* The overlay routes on their own: GET /{token}/api/overlay-config/{name}  *)
(* and GET /{token}/api/overlay-file/{filename}, against two overlay        *)
(* directories and two slide directories of which any may hold the density  *)
(* image of slide a.                                                        *)

OV2 == Plain("ov2")

\* the directories that may hold an overlay file, numbered
OverlayPlaces == <<OV, OV2, D1, D2>>

FsOverlay(places) ==
    FsServe(2, TRUE) @@ ( <<OV>> :> DirNode ) @@ ( <<OV2>> :> DirNode ) @@
    ( <<OV2, Plain("a") \o METADATA>> :> FileNode(Bytes(8, 1)) ) @@
    [ q \in { <<OverlayPlaces[i], Plain("a") \o DENSITY>> : i \in places }
        |-> FileNode(Bytes(CHOOSE i \in places : q[1] = OverlayPlaces[i], 1)) ]

OverlayDeclarations ==
    { Declared(<<LocalPath(<<D1>>)>>, <<LocalPath(<<OV>>), LocalPath(<<OV2>>)>>),
      Declared(<<LocalPath(<<D1>>)>>, <<LocalPath(<<OV2>>), LocalPath(<<OV>>)>>),
      Declared(<<GsP, LocalPath(<<D2, A_SVS>>), LocalPath(<<D1>>)>>,
               <<GsQ, LocalPath(<<OV>>)>>),
      Declared(<<LocalPath(<<D1>>), LocalPath(<<D2>>)>>, <<>>),
      Declared(<<LocalPath(<<D2>>), LocalPath(<<D1>>)>>, <<LocalPath(<<OV2>>)>>),
      Declared(<<GsP>>, <<GsQ>>) }

OverlayFilenames ==
    { Plain("a") \o DENSITY, Plain("a") \o METADATA, Plain("a") \o GRID,
      Plain("z") \o DENSITY, A_SVS }

\* the server after startup_event created the default session at time 0
InitOverlay ==
    /\ \E places \in SUBSET (1..Len(OverlayPlaces)), d \in OverlayDeclarations :
          /\ fs = FsOverlay(places)
          /\ sessions = (1 :> create_session(FsOverlay(places), 1,
                                             d.slides, d.overlay, 0, 0))
    /\ gcs = GcsServe(2)
    /\ issued = {1}
    /\ now = 0
    /\ cleanup_task = "Task"
    /\ phase = "serving"
    /\ last = Outcome("none", 0, 0, None)
    /\ loop = NoLoop

\* one request for the configuration or for a file
NextOverlay ==
    /\ last.op = "none"
    /\ \/ \E token \in {0, 1}, slide_name \in SiteOverlayNames :
              OverlayConfig(token, slide_name)
       \/ \E token \in {0, 1}, filename \in OverlayFilenames :
              OverlayFile(token, filename)

SpecOverlay == InitOverlay /\ [][NextOverlay]_vars

----------------------------------------------------------------------------
(* The routes that change slides: DELETE /{token}/api/delete/{slide_name}   *)
(* and POST /{token}/api/upload.                                            *)

MutationOutcome(op, token, name, slide_paths, reply) ==
    [op |-> op, token |-> token, name |-> name, slide_paths |-> slide_paths,
     status |-> reply.status, detail |-> reply.detail]

\* delete_slide: the whole handler
DeleteSlide(token, slide_name, backwards) ==
    /\ phase = "serving"
    /\ LET session == get_session(sessions, token, now)
           done == IF session = None
                   THEN Mutation(MutationResponse(404, "Session not found or expired"), fs)
                   ELSE delete_slide(fs, session, slide_name, backwards)
       IN  /\ sessions' = sessions_after_get(sessions, token, now)
           /\ fs' = done.fs
           /\ last' = MutationOutcome("delete-slide", token, slide_name,
                         IF session = None THEN <<>> ELSE session.slide_paths,
                         done.reply)
    /\ UNCHANGED <<issued, now, cleanup_task, phase, gcs, loop>>

\* upload_file: the whole handler
UploadFile(token, filename, content) ==
    /\ phase = "serving"
    /\ LET session == get_session(sessions, token, now)
           done == IF session = None
                   THEN Mutation(MutationResponse(404, "Session not found or expired"), fs)
                   ELSE upload_file(fs, session, filename, content)
       IN  /\ sessions' = sessions_after_get(sessions, token, now)
           /\ fs' = done.fs
           /\ last' = MutationOutcome("upload", token, filename,
                         IF session = None THEN <<>> ELSE session.slide_paths,
                         done.reply)
    /\ UNCHANGED <<issued, now, cleanup_task, phase, gcs, loop>>

\* the slide lists of the session whose slides are changed: remote only,
\* local only, and mixed
MutationSlideLists ==
    { <<GsP>>,
      <<GsQ, GsP>>,
      <<LocalPath(<<D1>>)>>,
      <<GsP, LocalPath(<<D1>>)>>,
      <<LocalPath(<<D1>>), LocalPath(<<D2>>)>>,
      <<LocalPath(<<D1, A_SVS>>), LocalPath(<<D2>>)>>,
      <<LocalPath(<<D2>>), GsP>> }

MutationSlideNames == { Plain("a"), Plain("b"), Plain("c"), Plain("n"), Plain("z") }
MutationFilenames == { <<>>, N_TXT, Z_SVS, C_SVS, A_SVS }

\* the server after startup_event created the default session at time 0
InitMutation ==
    /\ fs = FsList(1)
    /\ gcs = GcsList(2)
    /\ \E slide_paths \in MutationSlideLists :
          sessions = (1 :> create_session(FsList(1), 1, slide_paths, <<>>, 0, 0))
    /\ issued = {1}
    /\ now = 0
    /\ cleanup_task = "Task"
    /\ phase = "serving"
    /\ last = Outcome("none", 0, 0, None)
    /\ loop = NoLoop

NextMutation ==
    \/ \E token \in {0, 1}, slide_name \in MutationSlideNames, backwards \in BOOLEAN :
           DeleteSlide(token, slide_name, backwards)
    \/ \E token \in {0, 1}, filename \in MutationFilenames :
           UploadFile(token, filename, Bytes(9, 1))

SpecMutation == InitMutation /\ [][NextMutation]_vars

----------------------------------------------------------------------------
(* The event loop.  uvicorn runs the application in one process with one    *)
(* asyncio event loop; every handler is an "async def" and runs on the loop *)
(* itself, as does the task of the cleanup loop.  A task runs from one      *)
(* await to the next without another task running in between.  A task of    *)
(* loop.tasks is a request with the statement it has reached (pc), the      *)
(* session and the location its handler holds, and its response; or the     *)
(* coroutine _loop of start_cleanup_loop.                                   *)

NoReply == [status |-> 0]

Task(kind, token, filename, h) ==
    [kind |-> kind, token |-> token, filename |-> filename, range |-> h,
     pc |-> "new", session |-> None, location |-> NoLocation,
     reply |-> NoReply, decided_at |-> 0, expired |-> {}]

\* asyncio.create_task(_loop()): the coroutine, at its first await
SweepTask ==
    [Task("sweep", 0, Filename(FALSE, <<>>), <<>>) EXCEPT !.pc = "sleep"]

\* a loop that hands over to another task after every statement
yields_always(task) == TRUE

\* the statements at which a task is suspended and the loop may run another
\* one: a request not yet dispatched, a handler that has returned (the
\* response is sent with awaits), the cleanup loop in asyncio.sleep, and a
\* task that is over.  No handler body has an await of its own.
yields(task) ==
    task.pc \in {"new", "returned", "sending", "done", "sleep", "cancelled"}

\* the loop after task i made a step that left it as `task`
step(l, i, task) ==
    [l EXCEPT !.tasks[i] = task,
              !.running = IF yields(task) THEN 0 ELSE i]

\* task i may make a step: no other task is between two awaits
runnable(l, i) ==
    /\ i \in 1..Len(l.tasks)
    /\ l.running \in {0, i}

\* a transfer that goes back to the registry for the object it reads
held_location_live(task, s) ==
    IF task.token \in DOMAIN s THEN task.location ELSE NoLocation

\* FileResponse(str(file_path)): the path the response was built with
held_location(task, s) == task.location

\* serve_raw_slide: the handler reads the object with blocking calls
\* (blob.reload() and download_as_bytes(), or open/seek/read) before it
\* returns; FileResponse reads the file after the handler has returned
blocking(f, task) ==
    \/ task.location.is_gcs
    \/ /\ is_authorized(f, task.session.slide_paths, task.location.path)
       /\ is_file(f, task.location.path)
       /\ task.range # <<>>

\* self.sessions.get(token), in get_session
SessionsGet(i) ==
    /\ runnable(loop, i)
    /\ loop.tasks[i].kind \in {"heartbeat", "serve"}
    /\ loop.tasks[i].pc = "new"
    /\ loop' = step(loop, i,
                    [loop.tasks[i] EXCEPT
                        !.pc = "got",
                        !.session = IF loop.tasks[i].token \in DOMAIN sessions
                                    THEN sessions[loop.tasks[i].token]
                                    ELSE None])
    /\ UNCHANGED <<sessions, issued, now, cleanup_task, phase, fs, gcs, last>>

\* "if session: session.touch()" and the return of get_session; heartbeat
\* and get_session_or_404 raise 404 on None, heartbeat returns otherwise.
\* The object touched is the one the handler holds, in the map or not.
SessionTouch(i) ==
    /\ runnable(loop, i)
    /\ loop.tasks[i].pc = "got"
    /\ LET task == loop.tasks[i]
           held == task.session
       IN  IF held = None
           THEN /\ loop' = step(loop, i, [task EXCEPT !.pc = "returned",
                                                      !.reply = HTTPException(404)])
                /\ UNCHANGED sessions
           ELSE /\ loop' = step(loop, i,
                        [task EXCEPT
                            !.session = touch(held, now),
                            !.pc = IF task.kind = "heartbeat"
                                   THEN "returned" ELSE "touched",
                            !.reply = IF task.kind = "heartbeat"
                                      THEN [status |-> 200] ELSE NoReply])
                /\ sessions' = IF task.token \in DOMAIN sessions
                               THEN sessions_after_get(sessions, task.token, now)
                               ELSE sessions
    /\ UNCHANGED <<issued, now, cleanup_task, phase, fs, gcs, last>>

\* serve_raw_slide: find_file_in_session(session, filename)
Resolve(i) ==
    /\ runnable(loop, i)
    /\ loop.tasks[i].pc = "touched"
    /\ LET task == loop.tasks[i]
           location == find_file_in_session(fs, gcs, task.session.slide_paths,
                                            task.filename, FALSE)
       IN  loop' = step(loop, i,
                    IF location.found
                    THEN [task EXCEPT !.pc = "resolved", !.location = location]
                    ELSE [task EXCEPT !.pc = "returned",
                                      !.reply = HTTPException(404)])
    /\ UNCHANGED <<sessions, issued, now, cleanup_task, phase, fs, gcs, last>>

\* serve_raw_slide, after the object was found: the security check of a
\* local file, then the start of the blocking read of the object, or the
\* return of a FileResponse (which has read nothing yet)
BeginTransfer(i) ==
    /\ runnable(loop, i)
    /\ loop.tasks[i].pc = "resolved"
    /\ LET task == loop.tasks[i]
       IN  loop' = step(loop, i,
                    IF blocking(fs, task) THEN [task EXCEPT !.pc = "io"]
                    ELSE IF ~is_authorized(fs, task.session.slide_paths,
                                           task.location.path)
                    THEN [task EXCEPT !.pc = "returned",
                                      !.reply = HTTPException(403)]
                    ELSE [task EXCEPT !.pc = "returned"])
    /\ UNCHANGED <<sessions, issued, now, cleanup_task, phase, fs, gcs, last>>

\* serve_raw_slide: the blocking read is over and the handler returns
EndTransfer(i) ==
    /\ runnable(loop, i)
    /\ loop.tasks[i].pc = "io"
    /\ LET task == loop.tasks[i]
       IN  loop' = step(loop, i,
                    [task EXCEPT
                        !.pc = "returned",
                        !.reply = IF task.location.is_gcs
                                  THEN gcs_response(
                                          gcs[task.location.bucket][task.location.path],
                                          task.range, FALSE)
                                  ELSE local_response(
                                          file_bytes(fs, task.location.path),
                                          task.range)])
    /\ UNCHANGED <<sessions, issued, now, cleanup_task, phase, fs, gcs, last>>

\* a response that has left the server, and whether its session was in the
\* registry at that moment
Sent(task, s) ==
    [op |-> "sent", kind |-> task.kind, token |-> task.token,
     status |-> task.reply.status, session |-> task.session,
     registered |-> task.token \in DOMAIN s]

\* the server sends the response the handler returned; a FileResponse
\* opens its file now and reads it in chunks, awaiting each
Send(i) ==
    /\ runnable(loop, i)
    /\ loop.tasks[i].pc = "returned"
    /\ loop' = step(loop, i,
                    [loop.tasks[i] EXCEPT
                        !.pc = IF loop.tasks[i].reply = NoReply
                               THEN "sending" ELSE "done"])
    /\ last' = IF loop.tasks[i].reply = NoReply THEN last
               ELSE Sent(loop.tasks[i], sessions)
    /\ UNCHANGED <<sessions, issued, now, cleanup_task, phase, fs, gcs>>

\* FileResponse: the last chunk of the file has been sent
Stream(i) ==
    /\ runnable(loop, i)
    /\ loop.tasks[i].pc = "sending"
    /\ LET task == loop.tasks[i]
           location == held_location(task, sessions)
       IN  loop' = step(loop, i,
                    [task EXCEPT
                        !.pc = "done",
                        !.reply = IF location.found /\ is_file(fs, location.path)
                                  THEN local_response(file_bytes(fs, location.path),
                                                      <<>>)
                                  ELSE HTTPException(500)])
    /\ last' = Sent(loop'.tasks[i], sessions)
    /\ UNCHANGED <<sessions, issued, now, cleanup_task, phase, fs, gcs>>

\* DELETE /api/sessions/{token}: the whole handler
DeleteTask(i) ==
    /\ runnable(loop, i)
    /\ loop.tasks[i].kind = "delete"
    /\ loop.tasks[i].pc = "new"
    /\ sessions' = delete_session(sessions, loop.tasks[i].token)
    /\ loop' = step(loop, i, [loop.tasks[i] EXCEPT !.pc = "returned",
                                                   !.reply = [status |-> 200]])
    /\ UNCHANGED <<issued, now, cleanup_task, phase, fs, gcs, last>>

\* POST /api/sessions: the whole handler, with a request it accepts
CreateTask(i) ==
    /\ runnable(loop, i)
    /\ loop.tasks[i].kind = "create"
    /\ loop.tasks[i].pc = "new"
    /\ StoreNewSession("create", <<LocalPath(<<D2>>)>>, <<>>)
    /\ loop' = step(loop, i, [loop.tasks[i] EXCEPT !.pc = "returned",
                                                   !.reply = [status |-> 200]])
    /\ UNCHANGED <<cleanup_task, phase, fs, gcs>>

\* _loop: asyncio.sleep(interval_minutes * 60) is over
Wake(i) ==
    /\ runnable(loop, i)
    /\ loop.tasks[i].pc = "sleep"
    /\ loop' = step(loop, i, [loop.tasks[i] EXCEPT !.pc = "woken"])
    /\ UNCHANGED <<sessions, issued, now, cleanup_task, phase, fs, gcs, last>>

\* cleanup_expired: now = utcnow() and the list `expired`; with an empty
\* list the function returns and _loop sleeps again
Decide(i) ==
    /\ runnable(loop, i)
    /\ loop.tasks[i].pc = "woken"
    /\ loop' = step(loop, i,
                    [loop.tasks[i] EXCEPT
                        !.pc = IF expired(sessions, now) = {}
                               THEN "sleep" ELSE "decided",
                        !.decided_at = now,
                        !.expired = expired(sessions, now)])
    /\ UNCHANGED <<sessions, issued, now, cleanup_task, phase, fs, gcs, last>>

\* cleanup_expired: one turn of "for t in expired: self.delete_session(t)";
\* after the last one _loop sleeps again
Remove(i) ==
    /\ runnable(loop, i)
    /\ loop.tasks[i].pc = "decided"
    /\ LET task == loop.tasks[i]
           t == CHOOSE x \in task.expired : \A y \in task.expired : x <= y
       IN  /\ sessions' = delete_session(sessions, t)
           /\ loop' = step(loop, i,
                    [task EXCEPT !.expired = task.expired \ {t},
                                 !.pc = IF task.expired = {t}
                                        THEN "sleep" ELSE "decided"])
    /\ UNCHANGED <<issued, now, cleanup_task, phase, fs, gcs, last>>

\* the requests in flight: one for the first session, and one that may
\* remove it or concerns another session
FirstRequests ==
    { Task("serve", 1, Filename(FALSE, <<A_SVS>>), <<>>),
      Task("serve", 1, Filename(FALSE, <<A_SVS>>), <<"bytes=", "0", "-", "0">>),
      Task("heartbeat", 1, Filename(FALSE, <<>>), <<>>) }

SecondRequests ==
    { Task("delete", 1, Filename(FALSE, <<>>), <<>>),
      Task("heartbeat", 1, Filename(FALSE, <<>>), <<>>),
      Task("heartbeat", 2, Filename(FALSE, <<>>), <<>>),
      Task("create", 0, Filename(FALSE, <<>>), <<>>) }

\* the server after startup_event, with two requests accepted and a second
\* session that POST /api/sessions may have created, all at time 0
InitLoop ==
    /\ fs = FsSite
    /\ gcs = GcsSite
    /\ \E d \in SiteDeclarations, more \in BOOLEAN :
          /\ sessions =
                (1 :> create_session(FsSite, 1, d.slides, d.overlay, 0, 0))
                @@ (IF more
                    THEN (2 :> create_session(FsSite, 2, <<LocalPath(<<D2>>)>>,
                                              <<>>, 0, 0))
                    ELSE << >>)
          /\ issued = IF more THEN {1, 2} ELSE {1}
    /\ now = 0
    /\ cleanup_task = "Task"
    /\ phase = "serving"
    /\ last = Outcome("none", 0, 0, None)
    /\ \E r1 \in FirstRequests, r2 \in SecondRequests :
          /\ r2.kind = "create" => FreshTokens(issued) # {}
          /\ loop = [running |-> 0, ref |-> 3, tasks |-> <<r1, r2, SweepTask>>]

NextLoop ==
    \/ \E i \in 1..Len(loop.tasks) : SessionsGet(i)
    \/ \E i \in 1..Len(loop.tasks) : SessionTouch(i)
    \/ \E i \in 1..Len(loop.tasks) : Resolve(i)
    \/ \E i \in 1..Len(loop.tasks) : BeginTransfer(i)
    \/ \E i \in 1..Len(loop.tasks) : EndTransfer(i)
    \/ \E i \in 1..Len(loop.tasks) : Send(i)
    \/ \E i \in 1..Len(loop.tasks) : Stream(i)
    \/ \E i \in 1..Len(loop.tasks) : DeleteTask(i)
    \/ \E i \in 1..Len(loop.tasks) : CreateTask(i)
    \/ \E i \in 1..Len(loop.tasks) : Wake(i)
    \/ \E i \in 1..Len(loop.tasks) : Decide(i)
    \/ \E i \in 1..Len(loop.tasks) : Remove(i)
    \/ AdvanceClock

SpecLoop == InitLoop /\ [][NextLoop]_vars

----------------------------------------------------------------------------
(* The SessionManager on its own: its methods called in any order, with    *)
(* the tasks that start_cleanup_loop creates running on the event loop.     *)

\* start_cleanup_loop: a new task runs _loop, and _cleanup_task refers to
\* it (whatever it referred to before)
StartCleanupLoop ==
    /\ loop.running = 0
    /\ Len(loop.tasks) < MaxStarts
    /\ loop' = [loop EXCEPT !.tasks = Append(@, SweepTask),
                            !.ref = Len(loop.tasks) + 1]
    /\ cleanup_task' = "Task"
    /\ last' = Outcome("start", 0, 0, None)
    /\ UNCHANGED <<sessions, issued, now, phase, fs, gcs>>

\* stop_cleanup_loop: the task _cleanup_task refers to is cancelled (it is
\* in asyncio.sleep, where the CancelledError ends it) and the reference
\* is dropped
StopCleanupLoop ==
    /\ loop.running = 0
    /\ loop' = IF loop.ref = 0 THEN loop
               ELSE [loop EXCEPT !.tasks[loop.ref].pc = "cancelled", !.ref = 0]
    /\ cleanup_task' = "None"
    /\ last' = Outcome("stop", 0, 0, None)
    /\ UNCHANGED <<sessions, issued, now, phase, fs, gcs>>

InitManager ==
    /\ sessions = << >>
    /\ issued = {}
    /\ now = 0
    /\ cleanup_task = "None"
    /\ phase = "serving"
    /\ fs = Fs0
    /\ gcs = Gcs0
    /\ last = Outcome("none", 0, 0, None)
    /\ loop = NoLoop

NextManager ==
    \/ loop.running = 0 /\ ApiCreateSession
    \/ loop.running = 0 /\ Heartbeat
    \/ StartCleanupLoop
    \/ StopCleanupLoop
    \/ \E i \in 1..Len(loop.tasks) : Wake(i)
    \/ \E i \in 1..Len(loop.tasks) : Decide(i)
    \/ \E i \in 1..Len(loop.tasks) : Remove(i)
    \/ AdvanceClock

SpecManager == InitManager /\ [][NextManager]_vars

----------------------------------------------------------------------------
(* Properties of the registry *)

Lookups == {"heartbeat", "index"}
Creations == {"startup", "create"}

\* C1: a lookup (heartbeat, or a session-scoped request through
\* get_session_or_404) of a token that was never issued, or that was issued
\* and then removed by delete or by the sweep, answers NotFound (404); and a
\* token that has been removed is never in the registry again.
C1_RemovedOrUnknownIsNotFound ==
    /\ [](last.op \in Lookups
            /\ (last.token \notin issued \/ last.token \notin DOMAIN sessions)
          => last.status = 404)
    /\ [][\A t \in issued \ DOMAIN sessions : t \notin DOMAIN sessions']_vars

\* a removed token has been looked up
C1_Witness ==
    /\ last.op \in Lookups
    /\ last.token \in issued \ DOMAIN sessions
    /\ last.status = 404

\* C2: a sweep at time `now` removes exactly the sessions idle for more than
\* 30 minutes (1800 s, strictly) and keeps the others as they are: idle for
\* 31 minutes is removed, idle for 29 or for exactly 30 minutes stays.  It
\* changes nothing else.
C2_SweepRemovesExactlyTheIdle ==
    [][(last'.op = "cleanup" /\ now' = now) =>
          /\ DOMAIN sessions' \subseteq DOMAIN sessions
          /\ \A t \in DOMAIN sessions :
                /\ now - sessions[t].last_accessed > 1800
                     => t \notin DOMAIN sessions'
                /\ now - sessions[t].last_accessed >= 31 * 60
                     => t \notin DOMAIN sessions'
                /\ now - sessions[t].last_accessed <= 1800
                     => t \in DOMAIN sessions' /\ sessions'[t] = sessions[t]
                /\ now - sessions[t].last_accessed <= 29 * 60
                     => t \in DOMAIN sessions'
          /\ UNCHANGED <<issued, fs, gcs, cleanup_task, phase, loop>>
      ]_vars

\* a sweep has removed a session and kept another
C2_Witness ==
    /\ last.op = "cleanup"
    /\ last.status >= 1
    /\ \E t \in DOMAIN sessions : now - sessions[t].last_accessed <= 1800

\* C3: a lookup of a token right after its creation (no operation between
\* the two) finds that session, and the session it returns has
\* last_accessed >= created_at.
C3_LookupAfterCreate ==
    [][(last.op \in Creations /\ last.status = 200
          /\ last'.op \in Lookups /\ last'.token = last.token) =>
          /\ last'.status = 200
          /\ last'.session.token = last.token
          /\ last'.session.created_at = last.session.created_at
          /\ last'.session.slide_paths = last.session.slide_paths
          /\ last'.session.overlay_paths = last.session.overlay_paths
          /\ last'.session.last_accessed >= last'.session.created_at
          /\ sessions'[last.token] = last'.session
      ]_vars

\* a session was created while the clock advanced and has been looked up at
\* the very time it was created
C3_Witness ==
    /\ last.op \in Lookups
    /\ last.status = 200
    /\ last.session.created_at = now
    /\ last.session.created_at > 0
    /\ last.session.last_accessed = last.session.created_at

\* a declared local slide path does not exist
MissingLocal(slides) ==
    \E i \in 1..Len(slides) :
        ~is_gcs_path(slides[i]) /\ ~exists(fs, slides[i].segs)

\* the step is a creation (by the admin request or by the bootstrap)
CreationStep == last'.op \in Creations /\ (last' # last \/ issued' # issued)

\* C12 (as claimed): a creation, by POST /api/sessions or by the bootstrap, in
\* which a declared local slide path does not exist fails (InvalidPath, 400)
\* and leaves the registry as it was; and a session that is stored holds
\* every declared slide source, never a subset.
C12_CreateRejectsMissingSource ==
    [][CreationStep =>
          /\ MissingLocal(last'.slides) =>
                 /\ last'.status = 400
                 /\ sessions' = sessions
          /\ last'.status = 200 =>
                 Len(sessions'[last'.token].slide_paths) = Len(last'.slides)
      ]_vars

\* C12, for the admin request alone: the part of the claim the code meets
C12_ApiCreateRejectsMissingSource ==
    [][(CreationStep /\ last'.op = "create") =>
          /\ MissingLocal(last'.slides) =>
                 /\ last'.status = 400
                 /\ sessions' = sessions
          /\ last'.status = 200 =>
                 Len(sessions'[last'.token].slide_paths) = Len(last'.slides)
      ]_vars

\* C13: delete returns true exactly when the token was in the registry, and
\* then removes that session and nothing else; deleting a token that is not
\* there (unknown, or deleted before) returns false and changes nothing; a
\* delete of the token that was just deleted returns false.
C13_DeleteIsIdempotent ==
    /\ [](last.op = "delete" => last.token \notin DOMAIN sessions)
    /\ [][(last'.op = "delete" /\ (last' # last \/ sessions' # sessions)) =>
             /\ last'.deleted = (last'.token \in DOMAIN sessions)
             /\ DOMAIN sessions' = DOMAIN sessions \ {last'.token}
             /\ \A t \in DOMAIN sessions' : sessions'[t] = sessions[t]
             /\ ~last'.deleted => sessions' = sessions
             /\ (last.op = "delete" /\ last.token = last'.token) =>
                    (~last'.deleted /\ sessions' = sessions)
             /\ UNCHANGED issued
         ]_vars

\* the token of a session that had been removed was deleted, to no effect
C13_Witness ==
    /\ last.op = "delete"
    /\ last.token \in issued
    /\ ~last.deleted
    /\ DOMAIN sessions # {}

\* C14: every create returns a token that no earlier create returned, also
\* when the earlier session has been deleted or reclaimed; every stored
\* session is stored under its own token; and the token of a stored session
\* never changes.
C14_TokensAreUnique ==
    /\ [](\A t \in DOMAIN sessions : sessions[t].token = t /\ t \in issued)
    /\ [][/\ (CreationStep /\ last'.status = 200) =>
                 /\ last'.token \notin issued
                 /\ last'.token \notin DOMAIN sessions
                 /\ last'.session.token = last'.token
                 /\ sessions'[last'.token] = last'.session
                 /\ issued' = issued \cup {last'.token}
            /\ \A t \in DOMAIN sessions \cap DOMAIN sessions' :
                   sessions'[t].token = sessions[t].token
            /\ issued \subseteq issued'
        ]_vars

\* a session was created after an earlier one had been removed
C14_Witness ==
    /\ last.op \in Creations
    /\ last.status = 200
    /\ \E t \in issued : t \notin DOMAIN sessions /\ t # last.token

----------------------------------------------------------------------------
(* Properties of the content server *)

DigitSymbols == <<"0", "1", "2", "3", "4", "5", "6", "7", "8", "9">>

\* the decimal text of a natural number
RECURSIVE Decimal(_)
Decimal(n) ==
    IF n < 10 THEN <<DigitSymbols[n + 1]>>
    ELSE Decimal(n \div 10) \o <<DigitSymbols[(n % 10) + 1]>>

\* the header texts "bytes=START-END" and "bytes=START-"
ClosedRange(s, e) == <<"bytes=">> \o Decimal(s) \o <<"-">> \o Decimal(e)
OpenRange(s) == <<"bytes=">> \o Decimal(s) \o <<"-">>

\* numbers a header of the model can spell
Spelled == 0..(10 * MaxSize + 9)

\* the last request was a fetch that reached an object: the session and a
\* file (not a directory) were found, nothing failed in the remote store,
\* and a local file passed the security check
Fetched ==
    /\ last.op = "serve"
    /\ last.token \in DOMAIN sessions
    /\ last.fault = "none"
    /\ last.location.found
    /\ (last.location.is_gcs \/ is_file(fs, last.location.path))
    /\ last.status # 403

\* the bytes of the object the last request resolved to
FetchedBytes ==
    IF last.location.is_gcs
    THEN gcs[last.location.bucket][last.location.path]
    ELSE file_bytes(fs, last.location.path)

\* C4 (as claimed): for an object of size N > 0 and a header bytes=START-END
\* with 0 <= START <= END <= N-1, local or remote, the answer is 206 with
\* exactly the bytes START..END, Content-Length the length of the body, and
\* Content-Range bytes START-END/N.
C4_ClosedRangeIsExact ==
    Fetched => \A s \in Spelled, e \in Spelled :
        (last.range = ClosedRange(s, e)
           /\ s <= e /\ e <= Len(FetchedBytes) - 1) =>
            /\ last.status = 206
            /\ last.body = SubSeq(FetchedBytes, s + 1, e + 1)
            /\ Len(last.body) = e - s + 1
            /\ last.content_length = Len(last.body)
            /\ last.content_range = ContentRange(s, e, Len(FetchedBytes))

\* C4, local files only: the part of the claim the code meets
C4_ClosedRangeIsExactLocally ==
    (Fetched /\ ~last.location.is_gcs) => \A s \in Spelled, e \in Spelled :
        (last.range = ClosedRange(s, e)
           /\ s <= e /\ e <= Len(FetchedBytes) - 1) =>
            /\ last.status = 206
            /\ last.body = SubSeq(FetchedBytes, s + 1, e + 1)
            /\ last.content_length = e - s + 1
            /\ last.content_range = ContentRange(s, e, Len(FetchedBytes))

\* C5: for an object of size N > 0 and a header bytes=START- with
\* 0 <= START < N, local or remote, the answer is 206 with exactly the
\* N-START bytes from START to the end, and Content-Range
\* bytes START-(N-1)/N.
C5_OpenRangeRunsToTheEnd ==
    Fetched => \A s \in Spelled :
        (last.range = OpenRange(s) /\ s < Len(FetchedBytes)) =>
            /\ last.status = 206
            /\ last.body = SubSeq(FetchedBytes, s + 1, Len(FetchedBytes))
            /\ Len(last.body) = Len(FetchedBytes) - s
            /\ last.content_length = Len(FetchedBytes) - s
            /\ last.content_range =
                   ContentRange(s, Len(FetchedBytes) - 1, Len(FetchedBytes))

\* a remote object of 3 bytes was fetched with bytes=1-
C5_Witness ==
    /\ Fetched
    /\ last.location.is_gcs
    /\ last.range = OpenRange(1)
    /\ Len(FetchedBytes) = 3
    /\ last.status = 206

\* C6 (as claimed): for an object of size N and a header whose START >= N,
\* the answer is 416 with Content-Range bytes */N and an empty body.
C6_StartPastEndIs416 ==
    Fetched => \A s \in Spelled :
        (s >= Len(FetchedBytes)
           /\ (last.range = OpenRange(s)
                 \/ \E e \in Spelled : last.range = ClosedRange(s, e))) =>
            /\ last.status = 416
            /\ last.content_range = UnsatisfiedRange(Len(FetchedBytes))
            /\ last.body = <<>>

\* C6, for every object but an empty remote one: the part the code meets
C6_StartPastEndIs416UnlessRemoteEmpty ==
    (Fetched /\ (~last.location.is_gcs \/ Len(FetchedBytes) > 0)) =>
      \A s \in Spelled :
        (s >= Len(FetchedBytes)
           /\ (last.range = OpenRange(s)
                 \/ \E e \in Spelled : last.range = ClosedRange(s, e))) =>
            /\ last.status = 416
            /\ last.content_range = UnsatisfiedRange(Len(FetchedBytes))
            /\ last.body = <<>>

\* a header "bytes=" START "-" END in which START or END holds a character
\* that is no digit
Malformed(h) ==
    /\ Len(h) >= 3
    /\ h[1] = "bytes="
    /\ \A i \in 2..Len(h) : h[i] # "bytes="
    /\ Cardinality({i \in 1..Len(h) : h[i] = "-"}) = 1
    /\ \E i \in 1..Len(h) : h[i] = "x"

\* C7 (as claimed): a malformed range header is answered 416 with
\* Content-Range bytes */totalSize, never with a partial success or a
\* server error.  (Stated for objects that are not empty.)
C7_MalformedIs416 ==
    (Fetched /\ Malformed(last.range) /\ Len(FetchedBytes) > 0) =>
        /\ last.status = 416
        /\ last.content_range = UnsatisfiedRange(Len(FetchedBytes))

\* the directories and files the slide paths of a session declare
LocalRoots(slide_paths) ==
    { slide_paths[i].segs : i \in {j \in 1..Len(slide_paths) :
                                      ~is_gcs_path(slide_paths[j])} }

\* a resolved path is a declared file or lies under a declared directory
Contained(r, slide_paths) ==
    \E root \in LocalRoots(slide_paths) :
        IF is_file(fs, root) THEN r = root
        ELSE Len(root) <= Len(r) /\ \A k \in 1..Len(root) : r[k] = root[k]

\* the filename has a ".." segment
Traverses(filename) ==
    \E i \in 1..Len(filename.segs) : filename.segs[i] = DotDot

\* where the filename leads from each declared directory
Targets(slide_paths, filename) ==
    { resolve(fs, joinpath(root, filename)) :
        root \in {r \in LocalRoots(slide_paths) : ~is_file(fs, r)} }

\* C8 (as claimed): a fetch whose filename has traversal segments and leads
\* outside every declared local source is answered 403, whether or not a
\* file exists where it leads.
C8_EscapeIs403 ==
    (/\ last.op = "serve"
     /\ last.token \in DOMAIN sessions
     /\ last.fault = "none"
     /\ Traverses(last.filename)
     /\ Targets(sessions[last.token].slide_paths, last.filename) # {}
     /\ \A r \in Targets(sessions[last.token].slide_paths, last.filename) :
            ~Contained(r, sessions[last.token].slide_paths))
    => last.status = 403

\* C8, when a file exists where the filename leads: the part the code meets
C8_EscapeToExistingIs403 ==
    (/\ last.op = "serve"
     /\ last.token \in DOMAIN sessions
     /\ last.fault = "none"
     /\ Traverses(last.filename)
     /\ last.location.found
     /\ ~last.location.is_gcs
     /\ ~Contained(resolve(fs, last.location.path),
                   sessions[last.token].slide_paths))
    => last.status = 403

\* C9: a fetch answered 200 or 206 from a local file returns bytes of a file
\* whose resolved path is a declared single-file source or lies under a
\* declared directory source.
C9_ServedLocalFileIsContained ==
    (/\ last.op = "serve"
     /\ last.status \in {200, 206}
     /\ ~last.location.is_gcs)
    => /\ last.token \in DOMAIN sessions
       /\ last.location.found
       /\ Contained(resolve(fs, last.location.path),
                    sessions[last.token].slide_paths)
       /\ \E a \in 1..(MaxSize + 1), b \in 0..MaxSize :
              last.body = SubSeq(fs[resolve(fs, last.location.path)].content, a, b)

\* a file was served through a filename with traversal segments
C9_Witness ==
    /\ last.op = "serve"
    /\ last.status = 200
    /\ ~last.location.is_gcs
    /\ Traverses(last.filename)
    /\ last.body # <<>>

\* the slide paths of the session, and those that hold the requested name
LastSlidePaths == sessions[last.token].slide_paths
Holding ==
    { i \in 1..Len(LastSlidePaths) :
        match_slide_path(fs, gcs, LastSlidePaths[i], i, last.filename, FALSE).found }

----------------------------------------------------------------------------
(* Properties of the slide listing *)

\* the last request was a listing that was answered, with the remote store
\* working
Listed ==
    /\ last.op = "list"
    /\ last.token \in DOMAIN sessions
    /\ last.fault = "none"

\* the sizes of the files of base name `filename` that the i-th slide path
\* of the listed session contains
SizesIn(i, filename) ==
    LET slide_path == sessions[last.token].slide_paths[i]
    IN  IF is_gcs_path(slide_path)
        THEN { Len(gcs[slide_path.bucket][k]) :
                 k \in { key \in DOMAIN gcs[slide_path.bucket] :
                          /\ BaseName(key) = filename
                          /\ startswith(Text(key), Text(slide_path.segs)) } }
        ELSE IF is_file(fs, slide_path.segs)
        THEN IF BaseName(slide_path.segs) = filename
             THEN { Len(file_bytes(fs, slide_path.segs)) } ELSE {}
        ELSE IF is_file(fs, Append(slide_path.segs, filename))
        THEN { Len(file_bytes(fs, Append(slide_path.segs, filename))) }
        ELSE {}

\* the slide paths of the listed session that contain the filename
SourcesOf(filename) ==
    { i \in 1..Len(sessions[last.token].slide_paths) : SizesIn(i, filename) # {} }

\* the names with a recognized extension among those of the model
SlideNames == {A_SVS, B_SVS, E_SVS}

\* C11 (as claimed): a listing never holds two entries of the same
\* filename; a slide file present in one or more sources is listed exactly
\* once, with the size it has in the first-listed source that contains it;
\* and nothing without a recognized extension is listed.
C11_ListedOnceFromFirstSource ==
    Listed =>
        /\ last.status = 200
        /\ \A i, j \in 1..Len(last.slides) :
               last.slides[i].filename = last.slides[j].filename => i = j
        /\ \A i \in 1..Len(last.slides) :
               /\ last.slides[i].filename \in SlideNames
               /\ SourcesOf(last.slides[i].filename) # {}
               /\ \E src \in SourcesOf(last.slides[i].filename) :
                      /\ \A o \in SourcesOf(last.slides[i].filename) : src <= o
                      /\ last.slides[i].size \in SizesIn(src, last.slides[i].filename)
        /\ \A name \in SlideNames :
               SourcesOf(name) # {} =>
                   \E i \in 1..Len(last.slides) : last.slides[i].filename = name

\* C11 without the size of an entry that a single-object remote source
\* contributes: the part of the claim the code meets
C11_ListedOnceFromFirstSourceSizeApart ==
    Listed =>
        /\ last.status = 200
        /\ \A i, j \in 1..Len(last.slides) :
               last.slides[i].filename = last.slides[j].filename => i = j
        /\ \A i \in 1..Len(last.slides) :
               /\ last.slides[i].filename \in SlideNames
               /\ SourcesOf(last.slides[i].filename) # {}
               /\ \E src \in SourcesOf(last.slides[i].filename) :
                      /\ \A o \in SourcesOf(last.slides[i].filename) : src <= o
                      /\ \/ last.slides[i].size \in SizesIn(src, last.slides[i].filename)
                         \/ /\ is_gcs_path(sessions[last.token].slide_paths[src])
                            /\ is_single_file(sessions[last.token].slide_paths[src].segs)
                            /\ last.slides[i].size = 0
        /\ \A name \in SlideNames :
               SourcesOf(name) # {} =>
                   \E i \in 1..Len(last.slides) : last.slides[i].filename = name

----------------------------------------------------------------------------
(* Properties of the whole site *)

\* the requests that look the session up through get_session_or_404
SessionScoped == {"index", "serve", "head", "list", "overlay-config", "overlay-file"}

\* the step is an operation with an outcome (any but the passing of time)
OperationStep == last' # last \/ sessions' # sessions

\* C15: no operation changes the slide list or the overlay list of a stored
\* session, in content or in order: not a lookup or heartbeat, nor a delete
\* or a sweep (of the sessions that stay), nor a fetch, a probe, a listing
\* or an overlay lookup; and the session a lookup returns has the lists the
\* stored session had.
C15_SourceListsNeverChange ==
    [][/\ \A t \in DOMAIN sessions \cap DOMAIN sessions' :
              /\ sessions'[t].slide_paths = sessions[t].slide_paths
              /\ sessions'[t].overlay_paths = sessions[t].overlay_paths
       /\ (OperationStep /\ last'.op \in {"heartbeat", "index"} /\ last'.status = 200) =>
              /\ last'.session.slide_paths = sessions[last'.token].slide_paths
              /\ last'.session.overlay_paths = sessions[last'.token].overlay_paths
      ]_vars

\* a session with two slide sources and an overlay source was listed after
\* time had passed
C15_Witness ==
    /\ last.op = "list"
    /\ last.status = 200
    /\ now > 0
    /\ sessions[last.token].last_accessed = now
    /\ Len(sessions[last.token].slide_paths) = 2
    /\ Len(sessions[last.token].overlay_paths) = 1

\* C16: last_accessed of a stored session never decreases; a lookup that
\* finds the token (a heartbeat or any session-scoped request) sets it to
\* the current time; the heartbeat reports the value it set; and an
\* operation on another token, or on none, leaves it as it was.
C16_LastAccessedIsMonotone ==
    [][/\ \A t \in DOMAIN sessions \cap DOMAIN sessions' :
              sessions'[t].last_accessed >= sessions[t].last_accessed
       /\ (OperationStep /\ last'.op \in SessionScoped \cup {"heartbeat"}
              /\ last'.token \in DOMAIN sessions) =>
              /\ last'.token \in DOMAIN sessions'
              /\ sessions'[last'.token].last_accessed = now
              /\ now' = now
       /\ (OperationStep /\ last'.op = "heartbeat" /\ last'.token \in DOMAIN sessions) =>
              /\ last'.status = 200
              /\ last'.session.last_accessed = sessions'[last'.token].last_accessed
       /\ OperationStep =>
              \A t \in DOMAIN sessions \cap DOMAIN sessions' :
                  (t # last'.token \/ last'.op \in {"delete", "cleanup"}) =>
                      sessions'[t].last_accessed = sessions[t].last_accessed
       /\ ~OperationStep =>
              \A t \in DOMAIN sessions \cap DOMAIN sessions' :
                  sessions'[t].last_accessed = sessions[t].last_accessed
      ]_vars

\* a heartbeat moved last_accessed of one session forward while the other
\* session kept its older value
C16_Witness ==
    /\ last.op = "heartbeat"
    /\ last.status = 200
    /\ last.session.last_accessed = now
    /\ now > 0
    /\ \E t \in DOMAIN sessions : t # last.token /\ sessions[t].last_accessed < now

----------------------------------------------------------------------------
(* Properties of full fetches, response headers, the two backends and the  *)
(* probe                                                                    *)

\* C17 (as claimed): a fetch without a Range header is answered 200 with
\* the whole object as body, Content-Length the size of the object, and
\* Accept-Ranges: bytes, for local files and for remote objects.
C17_FullFetchIs200 ==
    (Fetched /\ last.range = <<>>) =>
        /\ last.status = 200
        /\ last.body = FetchedBytes
        /\ last.content_length = Len(FetchedBytes)
        /\ last.headers.accept_ranges = "bytes"

\* C17, for every object but an empty remote one: the part the code meets
C17_FullFetchIs200UnlessRemoteEmpty ==
    (Fetched /\ last.range = <<>>
       /\ (~last.location.is_gcs \/ Len(FetchedBytes) > 0)) =>
        /\ last.status = 200
        /\ last.body = FetchedBytes
        /\ last.content_length = Len(FetchedBytes)
        /\ last.headers.accept_ranges = "bytes"

\* C18: every answer of a fetch with status 200, 206 or 416 carries the same
\* cross-origin headers: Access-Control-Allow-Origin: *, an
\* Access-Control-Expose-Headers that lists Content-Length and
\* Content-Range, and Accept-Ranges: bytes.
C18_AnswersCarryCorsHeaders ==
    (last.op = "serve" /\ last.status \in {200, 206, 416}) =>
        /\ last.headers.allow_origin = "*"
        /\ {"Content-Length", "Content-Range"} \subseteq last.headers.expose_headers
        /\ last.headers.expose_headers =
               {"Content-Length", "Content-Type", "Content-Range", "Accept-Ranges"}
        /\ last.headers.allow_methods = {"GET", "HEAD", "OPTIONS"}
        /\ last.headers.allow_headers = {"Range", "Content-Type", "Accept"}
        /\ last.headers.accept_ranges = "bytes"

\* a remote object answered 416
C18_Witness ==
    /\ last.op = "serve"
    /\ last.status = 416
    /\ last.location.is_gcs
    /\ last.headers.allow_origin = "*"

\* what the other backend answers for the same bytes and the same header
OtherBackend ==
    IF last.location.is_gcs
    THEN local_response(FetchedBytes, last.range)
    ELSE gcs_response(FetchedBytes, last.range, FALSE)

\* C19 (as claimed): for the same content and the same Range header (or
\* none), a local file and a remote object are answered with the same
\* status, Content-Range, Content-Length and body, for every size, zero
\* included.
C19_BackendsAnswerAlike ==
    Fetched =>
        /\ last.status = OtherBackend.status
        /\ last.content_range = OtherBackend.content_range
        /\ last.content_length = OtherBackend.content_length
        /\ last.body = OtherBackend.body

\* a header with an END, as the handler reads it, that lies before the last
\* byte of the object and not before START
EndsEarly ==
    /\ last.range # <<>>
    /\ range_parses(last.range)
    /\ range_start(last.range) <= range_end(last.range, Len(FetchedBytes))
    /\ range_end(last.range, Len(FetchedBytes)) < Len(FetchedBytes) - 1

\* C19, for objects that are not empty and headers whose range does not end
\* before the last byte: the part the code meets
C19_BackendsAnswerAlikeOtherwise ==
    (Fetched /\ Len(FetchedBytes) > 0 /\ ~EndsEarly) =>
        /\ last.status = OtherBackend.status
        /\ last.content_range = OtherBackend.content_range
        /\ last.content_length = OtherBackend.content_length
        /\ last.body = OtherBackend.body

\* the last request was a probe that reached an object: the session and a
\* file (not a directory) were found and nothing failed in the remote store
Probed ==
    /\ last.op = "head"
    /\ last.token \in DOMAIN sessions
    /\ last.fault = "none"
    /\ last.location.found
    /\ (last.location.is_gcs \/ is_file(fs, last.location.path))

\* the size of the object the last probe resolved to
ProbedSize ==
    IF last.location.is_gcs
    THEN Len(gcs[last.location.bucket][last.location.path])
    ELSE Len(file_bytes(fs, last.location.path))

\* the extension -> MIME table: svs, tif and tiff are image/tiff
TiffNames == {A_SVS, B_SVS, Z_SVS}

\* C20 (as claimed): a probe of a filename that resolve finds is answered
\* 200 without a body, with the size of the object resolve selects as
\* Content-Length and the content type of the extension table
\* (application/octet-stream for an extension that is not in it); and the
\* fetch that follows, the object unchanged, uses that size as Content-Length
\* (200) or as the total of Content-Range (206, 416).
C20_ProbeReportsTheSize ==
    /\ [](Probed =>
             /\ last.status = 200
             /\ last.body = <<>>
             /\ last.content_length = ProbedSize
             /\ last.location =
                    find_file_in_session(fs, gcs, sessions[last.token].slide_paths,
                                         last.filename, FALSE)
             /\ last.content_type =
                    IF BaseName(last.filename.segs) \in TiffNames
                    THEN "image/tiff" ELSE "application/octet-stream")
    /\ [][(last.op = "head" /\ last.status = 200 /\ last'.op = "serve") =>
             /\ last'.status = 200 => last'.content_length = last.content_length
             /\ last'.status \in {206, 416} =>
                    last'.content_range.size = last.content_length
         ]_vars

\* C20, for every object but an empty remote one: the part the code meets
C20_ProbeReportsTheSizeUnlessRemoteEmpty ==
    /\ []((Probed /\ (~last.location.is_gcs \/ ProbedSize > 0)) =>
             /\ last.status = 200
             /\ last.body = <<>>
             /\ last.content_length = ProbedSize
             /\ last.content_type =
                    IF BaseName(last.filename.segs) \in TiffNames
                    THEN "image/tiff" ELSE "application/octet-stream")
    /\ [][(last.op = "head" /\ last.status = 200 /\ last'.op = "serve") =>
             /\ last'.status = 200 => last'.content_length = last.content_length
             /\ last'.status \in {206, 416} =>
                    last'.content_range.size = last.content_length
         ]_vars

----------------------------------------------------------------------------
(* Properties of the routes that change slides *)

\* a delete-slide request that found its session, all of whose slide paths
\* are remote
RemoteOnlyDelete ==
    /\ last.op = "delete-slide"
    /\ last.token \in DOMAIN sessions
    /\ last.slide_paths # <<>>
    /\ \A i \in 1..Len(last.slide_paths) : is_gcs_path(last.slide_paths[i])

\* the response to a delete on a local directory that has no such slide
NotFoundOfLocalSource ==
    delete_from(FsList(1), <<LocalPath(<<D2>>)>>, 1, Plain("z"), FALSE).reply

\* C21 (as claimed): a delete of a slide in a session whose slide sources
\* are all remote is answered with an outcome that differs from the NotFound
\* answer given when a local source has no matching slide, and it is not
\* answered as a success.
C21_RemoteOnlyDeleteIsDistinct ==
    RemoteOnlyDelete =>
        /\ MutationResponse(last.status, last.detail) # NotFoundOfLocalSource
        /\ last.status # 200

\* C21, the part the code meets: such a delete is never answered as a
\* success and changes no file
C21_RemoteOnlyDeleteIsRefused ==
    /\ [](RemoteOnlyDelete => last.status \notin {200, 500})
    /\ [][(last'.op = "delete-slide" /\ last'.status = 404) => fs' = fs]_vars

----------------------------------------------------------------------------
(* Properties of error propagation *)

\* a fetch or a probe, of a session that was found, during which the remote
\* store fails while resolve examines a remote slide path that holds the
\* file: every slide path before that one has no match
FailedExamination ==
    /\ last.op \in {"serve", "head"}
    /\ last.token \in DOMAIN sessions
    /\ last.fault = "lookup"
    /\ LET slide_paths == sessions[last.token].slide_paths
       IN  \E i \in 1..Len(slide_paths) :
              /\ is_gcs_path(slide_paths[i])
              /\ match_slide_path(fs, gcs, slide_paths[i], i,
                                  last.filename, FALSE).found
              /\ \A j \in 1..(i - 1) :
                    ~match_slide_path(fs, gcs, slide_paths[j], j,
                                      last.filename, TRUE).found

\* C22 (as claimed): when a remote-store operation fails while resolve
\* examines a source, or the remote client is unavailable, the caller gets a
\* server error (UpstreamFailure): not NotFound, and not a match taken from
\* a later source.
C22_LookupFailureIsServerError ==
    FailedExamination => last.status = 500 /\ ~last.location.found

\* C22, the part the code meets: a remote-store failure during the transfer
\* of an object that resolve found is answered with a server error
C22_TransferFailureIsServerError ==
    (/\ last.op \in {"serve", "head"}
     /\ last.fault = "transfer"
     /\ last.location.found
     /\ last.location.is_gcs) => last.status = 500

----------------------------------------------------------------------------
(* Properties of the session listing *)

\* the summaries of the sessions of a map
SummariesOf(s) ==
    { [token |-> t, created_at |-> s[t].created_at,
       last_accessed |-> s[t].last_accessed] : t \in DOMAIN s }

\* C23 (as claimed): the listing of the sessions succeeds in every reachable
\* state of the registry and returns one summary (token, created_at,
\* last_accessed) per session in the map; it touches no session and does not
\* change the map.
C23_ListSessionsSummarizesAll ==
    /\ [](last.op = "sessions" =>
             /\ last.status = 200
             /\ { [token |-> x.token, created_at |-> x.created_at,
                   last_accessed |-> x.last_accessed] : x \in last.summaries }
                = SummariesOf(sessions)
             /\ Cardinality(last.summaries) = Cardinality(DOMAIN sessions))
    /\ [][last'.op = "sessions" /\ last' # last => sessions' = sessions]_vars

\* C23, the part the code meets: the listing changes nothing in the
\* registry, and it succeeds, with no summary, when the registry is empty
C23_ListSessionsChangesNothing ==
    /\ [](last.op = "sessions" /\ sessions = << >> =>
             last.status = 200 /\ last.summaries = {})
    /\ [][last'.op = "sessions" /\ last' # last => sessions' = sessions]_vars

----------------------------------------------------------------------------
(* Properties of the overlay search *)

\* the local overlay paths, and the local slide paths, of a session whose
\* directory (for a slide path that is a file: its parent) has the target
OverlayHits(session, target) ==
    { i \in 1..Len(session.overlay_paths) :
        /\ ~is_gcs_path(session.overlay_paths[i])
        /\ exists(fs, Append(session.overlay_paths[i].segs, target)) }

SlideDirectory(slide_path) ==
    IF is_dir(fs, slide_path.segs) THEN slide_path.segs ELSE Parent(slide_path.segs)

SlideHits(session, target) ==
    { i \in 1..Len(session.slide_paths) :
        /\ ~is_gcs_path(session.slide_paths[i])
        /\ exists(fs, Append(SlideDirectory(session.slide_paths[i]), target)) }

Least(S) == CHOOSE i \in S : \A j \in S : i <= j

\* what the overlay search has to return: the target in the first overlay
\* path that has it, else in the first slide directory that has it
ExpectedOverlay(session, target) ==
    IF OverlayHits(session, target) # {}
    THEN Append(session.overlay_paths[Least(OverlayHits(session, target))].segs,
                target)
    ELSE IF SlideHits(session, target) # {}
    THEN Append(SlideDirectory(
                    session.slide_paths[Least(SlideHits(session, target))]),
                target)
    ELSE NoPath

\* a request for an overlay file, of a session that was found, whose name
\* ends in one of the three suffixes
OverlayAsked ==
    /\ last.op = "overlay-file"
    /\ last.token \in DOMAIN sessions
    /\ \E i \in 1..Len(OverlaySuffixes) : endswith(last.filename, OverlaySuffixes[i])

\* C24: the overlay search returns the first existing slide-name-plus-suffix
\* of the overlay sources in declared order; only if none has it, the first
\* of the local slide sources (the directory, or the parent of a single
\* file); remote sources are skipped without error; nothing found is None
\* (the file route answers 404, the configuration reports it absent).
C24_OverlaySourcesWin ==
    /\ OverlayAsked =>
          LET expected == ExpectedOverlay(sessions[last.token], last.filename)
          IN  IF expected = NoPath THEN last.status = 404
              ELSE /\ last.status = 200
                   /\ last.body = file_bytes(fs, expected)
    /\ (last.op = "overlay-config" /\ last.token \in DOMAIN sessions) =>
          /\ last.status = 200
          /\ last.config.density_image =
                (ExpectedOverlay(sessions[last.token],
                                 last.slide_name \o DENSITY) # NoPath)
          /\ last.config.metadata =
                (ExpectedOverlay(sessions[last.token],
                                 last.slide_name \o METADATA) # NoPath)
          /\ last.config.grid =
                (ExpectedOverlay(sessions[last.token],
                                 last.slide_name \o GRID) # NoPath)

\* C24 witness: a file served from the second overlay source, the first one
\* not having it, while a slide directory has a file of the same name
C24_Witness ==
    /\ OverlayAsked
    /\ last.status = 200
    /\ OverlayHits(sessions[last.token], last.filename) # {}
    /\ Least(OverlayHits(sessions[last.token], last.filename)) = 2
    /\ SlideHits(sessions[last.token], last.filename) # {}
    /\ last.body = file_bytes(fs, ExpectedOverlay(sessions[last.token], last.filename))

----------------------------------------------------------------------------
(* Properties of the event loop *)

TaskIds == 1..Len(loop.tasks)

\* task i leaves the statement `pc` in this step
Leaves(i, pc) == loop.tasks[i].pc = pc /\ loop'.tasks[i].pc # pc

\* C25: get is an atomic lookup-and-touch with respect to delete and the
\* sweep: a get that found the session touches it while it is still in the
\* registry (no removal comes between the lookup and the touch), a get
\* answers NotFound only if the removal was complete when it looked, and a
\* lookup made after the removal finds nothing.
C25_GetIsAtomic ==
    [][\A i \in TaskIds :
          /\ Leaves(i, "new") /\ loop'.tasks[i].pc = "got" =>
                (loop'.tasks[i].session = None
                    <=> loop.tasks[i].token \notin DOMAIN sessions)
          /\ Leaves(i, "got") =>
                IF loop.tasks[i].session = None
                THEN /\ loop.tasks[i].token \notin DOMAIN sessions
                     /\ loop'.tasks[i].reply.status = 404
                     /\ sessions' = sessions
                ELSE /\ loop.tasks[i].token \in DOMAIN sessions
                     /\ sessions[loop.tasks[i].token] = loop.tasks[i].session
                     /\ sessions'[loop.tasks[i].token].last_accessed = now
                     /\ loop'.tasks[i].session = sessions'[loop.tasks[i].token]
      ]_vars

\* C25 witness: a heartbeat of session 1 was answered 200 and the delete of
\* session 1, in flight at the same time, has removed it since
C25_Witness ==
    /\ loop.tasks[1].kind = "heartbeat"
    /\ loop.tasks[1].reply.status = 200
    /\ loop.tasks[2].kind = "delete"
    /\ loop.tasks[2].pc = "returned"
    /\ 1 \notin DOMAIN sessions

\* C26: a sweep that decided at time T removes a session only if, at the
\* moment it removes it, the session's last touch is before T - ttl; a get
\* that touched the session before the removal step keeps it from this
\* sweep.
C26_SweepRemovesOnlyTheIdle ==
    [][\A i \in TaskIds :
          (loop.tasks[i].pc = "decided" /\ loop'.tasks[i] # loop.tasks[i]) =>
              /\ \A t \in DOMAIN sessions \ DOMAIN sessions' :
                    loop.tasks[i].decided_at - sessions[t].last_accessed
                        > TtlMinutes * 60
              /\ \A t \in DOMAIN sessions' :
                    t \in DOMAIN sessions /\ sessions'[t] = sessions[t]
      ]_vars

\* C26 witness: the sweep has removed session 2 and kept session 1, which a
\* heartbeat touched before the sweep decided
C26_Witness ==
    /\ loop.tasks[3].pc = "sleep"
    /\ loop.tasks[3].decided_at > TtlMinutes * 60
    /\ 2 \in issued /\ 2 \notin DOMAIN sessions
    /\ 1 \in DOMAIN sessions
    /\ loop.tasks[1].kind = "heartbeat"
    /\ loop.tasks[1].reply.status = 200
    /\ sessions[1].last_accessed > 0

\* C27: once a request has passed the lookup and resolved its object, the
\* removal of the session (by delete or by the sweep) does not change its
\* outcome: the response that leaves the server is the one the handler
\* produces for the session it holds, in the registry or not.
C27_TransferOutlivesTheSession ==
    \A i \in TaskIds :
        (/\ loop.tasks[i].kind = "serve"
         /\ loop.tasks[i].pc = "done"
         /\ loop.tasks[i].session # None) =>
            loop.tasks[i].reply =
                serve_raw_slide(fs, gcs, loop.tasks[i].session,
                                loop.tasks[i].filename, loop.tasks[i].range,
                                "none")

\* C27 witness: a file was sent in full after its session had been removed
C27_Witness ==
    /\ last.op = "sent"
    /\ last.kind = "serve"
    /\ last.status = 200
    /\ ~last.registered
    /\ last.session # None

\* a request of task i is in the middle of reading its object
InTransfer(i) == loop.tasks[i].pc = "io"

\* task j has not started (a request) or is due (the cleanup loop), and
\* concerns another token than task i
Waiting(j, i) ==
    /\ j # i
    /\ loop.tasks[j].pc \in {"new", "sleep"}
    /\ loop.tasks[j].token # loop.tasks[i].token

\* C28 (as claimed): while a request is in the middle of a content transfer
\* for one token, a lookup of another token, a create, a delete and a tick
\* of the sweep can each start.
C28_OthersRunDuringTransfer ==
    \A i \in TaskIds, j \in TaskIds :
        (InTransfer(i) /\ Waiting(j, i)) =>
            ENABLED (SessionsGet(j) \/ DeleteTask(j) \/ CreateTask(j) \/ Wake(j))

\* C28, the part the code meets: no handler reads an object between the
\* lookup and the touch, and while a FileResponse is being sent the loop is
\* free for the other tasks
C28_OthersRunWhileFileIsSent ==
    \A i \in TaskIds, j \in TaskIds :
        (loop.tasks[i].pc = "sending" /\ Waiting(j, i) /\ loop.running = 0) =>
            ENABLED (SessionsGet(j) \/ DeleteTask(j) \/ CreateTask(j) \/ Wake(j))

----------------------------------------------------------------------------
(* Properties of the cleanup loop *)

\* session t is in the registry and idle for longer than the ttl
Idle(t) ==
    /\ t \in DOMAIN sessions
    /\ now - sessions[t].last_accessed > TtlMinutes * 60

\* C29: once the cleanup loop runs, and as long as it is not stopped, every
\* session (the bootstrap session included) that is idle for longer than
\* the ttl and is not looked up again is eventually removed; the tick that
\* finds it idle removes it; and the loop goes on after a tick that removed
\* nothing.
C29_IdleSessionsAreReclaimed ==
    /\ \A t \in Tokens :
          (Idle(t) /\ cleanup_task = "Task")
              ~> (t \notin DOMAIN sessions \/ cleanup_task # "Task" \/ ~Idle(t))
    /\ [][last'.op = "cleanup" /\ sessions' # sessions =>
             \A t \in DOMAIN sessions : Idle(t) => t \notin DOMAIN sessions'
         ]_vars
    /\ [](last.op = "cleanup" /\ last.status = 0 /\ cleanup_task = "Task" =>
             ENABLED CleanupTick)
    /\ [](last.op = "startup" => cleanup_task = "Task")

\* C29 witness: a tick of the loop has removed the bootstrap session, which
\* was the only one, and the loop is still running
C29_Witness ==
    /\ last.op = "cleanup"
    /\ last.status = 1
    /\ issued = {1}
    /\ sessions = << >>
    /\ cleanup_task = "Task"

\* a task of the cleanup loop removes a session in this step
SweepRemoves ==
    \E i \in 1..Len(loop.tasks) :
        /\ loop.tasks[i].pc = "decided"
        /\ loop'.tasks[i] # loop.tasks[i]
        /\ sessions' # sessions

\* C30 (as claimed): after stop_cleanup_loop has returned, no background
\* sweep removes a session any more, whatever calls of start_cleanup_loop
\* and stop_cleanup_loop came before (start called more than once
\* included); and a cancelled sweep is never left half-applied.
C30_NoSweepAfterStop ==
    /\ [][cleanup_task = "None" /\ loop.tasks # << >> => ~SweepRemoves]_vars
    /\ [](\A i \in 1..Len(loop.tasks) :
             loop.tasks[i].pc = "cancelled" => loop.tasks[i].expired = {})

\* C30, the part the code meets: the task that _cleanup_task referred to
\* never runs again after the stop, and it was not in the middle of a sweep
C30_StoppedTaskNeverRuns ==
    /\ [][\A i \in 1..Len(loop.tasks) :
             loop.tasks[i].pc = "cancelled" => loop'.tasks[i] = loop.tasks[i]]_vars
    /\ [][last'.op = "stop" /\ loop.ref # 0 =>
             loop'.tasks[loop.ref].pc = "cancelled"]_vars
    /\ [](\A i \in 1..Len(loop.tasks) :
             loop.tasks[i].pc = "cancelled" => loop.tasks[i].expired = {})

----------------------------------------------------------------------------
(* Properties of the range arithmetic *)

\* C31: for an object of size N and a header bytes=START-END with
\* 0 <= START < N and END < START, local or remote, the answer is 416 with
\* Content-Range bytes */N and an empty body; and no 206 carries a
\* Content-Range whose first byte is after its last.
C31_ReversedRangeIs416 ==
    Fetched =>
        /\ \A s \in 0..(Len(FetchedBytes) - 1) : \A e \in 0..(s - 1) :
               last.range = ClosedRange(s, e) =>
                   /\ last.status = 416
                   /\ last.content_range = UnsatisfiedRange(Len(FetchedBytes))
                   /\ last.body = <<>>
        /\ last.status = 206 =>
               last.content_range.first <= last.content_range.last

\* a local object of 3 bytes was fetched with bytes=2-1 and answered 416
C31_Witness ==
    /\ Fetched
    /\ ~last.location.is_gcs
    /\ last.range = ClosedRange(2, 1)
    /\ Len(FetchedBytes) = 3
    /\ last.status = 416

\* C32 (as claimed): for an object of size N > 0 and a header
\* bytes=START-END with 0 <= START < N and END >= N, local or remote, the
\* answer is 206 with exactly the N-START bytes from START, Content-Range
\* bytes START-(N-1)/N, and a remote store is asked for the bytes
\* START..N-1, never for a byte at or beyond N.
C32_EndIsClampedEverywhere ==
    Fetched =>
        \A s \in 0..(Len(FetchedBytes) - 1) :
          \A e \in Len(FetchedBytes)..(10 * MaxSize + 9) :
            last.range = ClosedRange(s, e) =>
                /\ last.status = 206
                /\ last.body = SubSeq(FetchedBytes, s + 1, Len(FetchedBytes))
                /\ last.content_length = Len(FetchedBytes) - s
                /\ last.content_range =
                       ContentRange(s, Len(FetchedBytes) - 1, Len(FetchedBytes))
                /\ last.location.is_gcs =>
                       LET asked == gcs_requested_span(Len(FetchedBytes),
                                                       last.range)
                       IN  /\ asked.first = s
                           /\ asked.last = Len(FetchedBytes) - 1

\* C32, the answer alone: END is clamped to N-1 in the 206 of both backends
C32_EndIsClampedInTheAnswer ==
    Fetched =>
        \A s \in 0..(Len(FetchedBytes) - 1) :
          \A e \in Len(FetchedBytes)..(10 * MaxSize + 9) :
            last.range = ClosedRange(s, e) =>
                /\ last.status = 206
                /\ last.body = SubSeq(FetchedBytes, s + 1, Len(FetchedBytes))
                /\ last.content_length = Len(FetchedBytes) - s
                /\ last.content_range =
                       ContentRange(s, Len(FetchedBytes) - 1, Len(FetchedBytes))

\* C32, the request to the store: it starts at START and never ends before
\* the last byte of the object
C32_RemoteRequestCoversTheSpan ==
    (Fetched /\ last.location.is_gcs) =>
        \A s \in 0..(Len(FetchedBytes) - 1) :
          \A e \in Len(FetchedBytes)..(10 * MaxSize + 9) :
            last.range = ClosedRange(s, e) =>
                LET asked == gcs_requested_span(Len(FetchedBytes), last.range)
                IN  /\ asked.first = s
                    /\ asked.last = Len(FetchedBytes)

----------------------------------------------------------------------------
(* Properties of the resolution of a filename *)

\* the last request was a fetch in a session, with no failure of the store
Resolved ==
    /\ last.op = "serve"
    /\ last.token \in DOMAIN sessions
    /\ last.fault = "none"

\* the names of the children of a directory (a symbolic link whose target
\* is missing is not counted: nothing is there to serve)
ChildNames(p) ==
    LET children == iterdir(fs, p, FALSE)
    IN  { BaseName(children[k]) :
            k \in {j \in 1..Len(children) : exists(fs, children[j])} }

\* what the i-th source of the session of the last request yields for the
\* filename of that request
HitOf(i) ==
    match_slide_path(fs, gcs, sessions[last.token].slide_paths[i], i,
                     last.filename, FALSE)

\* the request names the child c by its full name
NamesChild(c) == is_name(last.filename, c)

\* the request is the logical name of the child c: the stem of a child that
\* carries a recognized slide extension
NamesStemOf(c) == allowed_file(c) /\ c # stem(c) /\ is_name(last.filename, stem(c))

\* a single-file source matches exactly the base name of its file
SingleFileMatchesByBaseName(i) ==
    LET p == sessions[last.token].slide_paths[i].segs
    IN  HitOf(i).found <=> is_name(last.filename, BaseName(p))

\* C33 (as claimed): a local directory source matches a request that names
\* one of its direct children, and also a request that is the extension-less
\* stem of a child with a recognized slide extension; a local single-file
\* source matches only a request equal to the file's base name; and a
\* request some source matches is resolved.
C33_LocalMatchByNameOrStem ==
    Resolved =>
        \A i \in 1..Len(sessions[last.token].slide_paths) :
            LET slide_path == sessions[last.token].slide_paths[i]
            IN  ~is_gcs_path(slide_path) =>
                    /\ HitOf(i).found => last.location.found
                    /\ IF is_file(fs, slide_path.segs)
                       THEN SingleFileMatchesByBaseName(i)
                       ELSE \A c \in ChildNames(slide_path.segs) :
                                (NamesChild(c) \/ NamesStemOf(c)) =>
                                    /\ HitOf(i).found
                                    /\ HitOf(i).path = Append(slide_path.segs, c)

\* C33, without the logical names: a directory source matches the full name
\* of a direct child, a single-file source exactly its base name
C33_LocalMatchByFullName ==
    Resolved =>
        \A i \in 1..Len(sessions[last.token].slide_paths) :
            LET slide_path == sessions[last.token].slide_paths[i]
            IN  ~is_gcs_path(slide_path) =>
                    /\ HitOf(i).found => last.location.found
                    /\ IF is_file(fs, slide_path.segs)
                       THEN SingleFileMatchesByBaseName(i)
                       ELSE \A c \in ChildNames(slide_path.segs) :
                                NamesChild(c) =>
                                    /\ HitOf(i).found
                                    /\ HitOf(i).path = Append(slide_path.segs, c)

\* the prefix ends in a recognized slide extension
EndsInSlideExtension(prefix) == prefix # <<>> /\ allowed_file(BaseName(prefix))

\* the keys of the objects the store enumerates under a prefix
ObjectsUnder(bucket_name, prefix) ==
    LET keys == list_blobs(gcs, bucket_name, prefix, FALSE)
    IN  { keys[k] : k \in 1..Len(keys) }

\* C34 (as claimed): resolve treats a remote source as one object exactly
\* when its prefix ends in a recognized slide extension, and then matches
\* the request against the base name of that object; otherwise it matches
\* the request against the base names of the objects enumerated under the
\* prefix; and resolve and the listing take the same decision between one
\* object and a prefix for every remote source.
C34_RemoteMatchByBaseName ==
    Resolved =>
        \A i \in 1..Len(sessions[last.token].slide_paths) :
            LET slide_path == sessions[last.token].slide_paths[i]
                bucket_name == parse_gcs_location(slide_path)[1]
                prefix == parse_gcs_location(slide_path)[2]
            IN  is_gcs_path(slide_path) =>
                    /\ is_single_object(prefix) <=> EndsInSlideExtension(prefix)
                    /\ is_single_object(prefix) <=> is_single_file(prefix)
                    /\ HitOf(i).found <=>
                          IF EndsInSlideExtension(prefix)
                          THEN /\ is_name(last.filename, BaseName(prefix))
                               /\ blob_exists(gcs, bucket_name, prefix)
                          ELSE \E k \in ObjectsUnder(bucket_name, prefix) :
                                   is_name(last.filename, BaseName(k))

\* C34, for the prefixes on which the code and the claim agree: a prefix
\* that ends in a slide extension is one object in resolve and in the
\* listing and matches its base name; a prefix whose last name has no dot is
\* a prefix in both and matches the objects directly below it
C34_RemoteMatchOfPlainPrefixes ==
    Resolved =>
        \A i \in 1..Len(sessions[last.token].slide_paths) :
            LET slide_path == sessions[last.token].slide_paths[i]
                bucket_name == parse_gcs_location(slide_path)[1]
                prefix == parse_gcs_location(slide_path)[2]
            IN  is_gcs_path(slide_path) =>
                    /\ EndsInSlideExtension(prefix) =>
                          /\ is_single_object(prefix) /\ is_single_file(prefix)
                          /\ HitOf(i).found <=>
                                /\ is_name(last.filename, BaseName(prefix))
                                /\ blob_exists(gcs, bucket_name, prefix)
                    /\ ~HasDot(BaseName(prefix)) =>
                          /\ ~is_single_object(prefix) /\ ~is_single_file(prefix)
                          /\ \A k \in ObjectsUnder(bucket_name, prefix) :
                                 (Parent(k) = prefix
                                    /\ is_name(last.filename, BaseName(k))) =>
                                     HitOf(i) = GcsLocation(bucket_name, k, i)

----------------------------------------------------------------------------
(* Properties of listing and resolution together *)

\* the step from a listing to the probe of the k-th entry it reported
ProbesEntry(k) ==
    /\ last.op = "list"
    /\ last.status = 200
    /\ k \in 1..Len(last.slides)
    /\ last'.op = "head"
    /\ last'.filename = Filename(FALSE, <<last.slides[k].filename>>)

\* the slide paths that contribute an entry of this filename to the listing
ListingSources(filename) ==
    { i \in 1..Len(sessions[last.token].slide_paths) :
        filename \in seen_filenames(
            list_slide_path(fs, gcs, sessions[last.token].slide_paths[i],
                            <<>>, last.backwards, FALSE)) }

\* C35 (as claimed): every entry a listing reports resolves, when it is
\* probed next with the storage unchanged, to an object of the source the
\* listing took the entry from, with the size the listing reported.
C35_ListedEntriesResolve ==
    [][last.op = "list" => \A k \in 1..Len(last.slides) :
          ProbesEntry(k) =>
              /\ last'.status = 200
              /\ last'.location.found
              /\ last'.location.source \in ListingSources(last.slides[k].filename)
              /\ \A i \in ListingSources(last.slides[k].filename) :
                     last'.location.source <= i
              /\ last'.content_length = last.slides[k].size
      ]_vars

\* every slide path of the session of the last request is local
AllLocal ==
    \A i \in 1..Len(sessions[last.token].slide_paths) :
        ~is_gcs_path(sessions[last.token].slide_paths[i])

\* C35, for sessions whose sources are all local: the probe of a listed
\* entry resolves, never to a source after the one the listing took the
\* entry from, and when it resolves to a file, to that source and with the
\* size the listing reported
C35_LocalEntriesResolve ==
    [][(last.op = "list" /\ last.status = 200 /\ AllLocal) =>
        \A k \in 1..Len(last.slides) :
          ProbesEntry(k) =>
              /\ last'.location.found
              /\ \A i \in ListingSources(last.slides[k].filename) :
                     last'.location.source <= i
              /\ is_file(fs, last'.location.path) =>
                     /\ last'.status = 200
                     /\ last'.location.source
                            \in ListingSources(last.slides[k].filename)
                     /\ last'.content_length = last.slides[k].size
      ]_vars

----------------------------------------------------------------------------
(* Properties of the timestamps of a session *)

\* C36 (as claimed): in every reachable state every stored session has
\* created_at <= last_accessed, from the instant create stores it.
C36_CreatedNotAfterAccessed ==
    \A t \in DOMAIN sessions :
        sessions[t].created_at <= sessions[t].last_accessed

\* C36, after the first touch: a session that has created_at <=
\* last_accessed keeps it, and a lookup that finds a session leaves it so
C36_CreatedNotAfterAccessedOnceTouched ==
    [][/\ \A t \in (DOMAIN sessions) \cap (DOMAIN sessions') :
              sessions[t].created_at <= sessions[t].last_accessed =>
                  sessions'[t].created_at <= sessions'[t].last_accessed
       /\ (last'.op \in Lookups /\ last'.status = 200) =>
              sessions'[last'.token].created_at
                  <= sessions'[last'.token].last_accessed
      ]_vars

----------------------------------------------------------------------------
(* Properties of the probe *)

\* the last request was a probe that resolved to a local path outside every
\* declared local source of its session
ProbedOutside ==
    /\ last.op = "head"
    /\ last.token \in DOMAIN sessions
    /\ last.fault = "none"
    /\ last.location.found
    /\ ~last.location.is_gcs
    /\ ~Contained(resolve(fs, last.location.path),
                  sessions[last.token].slide_paths)

\* C37 (as claimed): a probe whose filename resolves to a local path outside
\* every declared local source of the session is rejected exactly as the
\* fetch of that filename is (403): it answers neither 200 nor the size of
\* the file.
C37_ProbeIsContained ==
    ProbedOutside =>
        /\ last.status = 403
        /\ last.status =
               serve_raw_slide(fs, gcs, sessions[last.token], last.filename,
                               <<>>, "none").status
        /\ last.content_length # st_size(fs, last.location.path)

\* C37, inside the sources: when the fetch that follows a probe is not
\* refused by the containment check and the target is an object or a file,
\* probe and fetch answer with the same status
C37_ProbeAgreesInsideTheSources ==
    [][(/\ last.op = "head"
        /\ last'.op = "serve"
        /\ last'.range = <<>>
        /\ last'.status # 403
        /\ last'.location.found =>
               (last'.location.is_gcs \/ is_file(fs, last'.location.path)))
       => last'.status = last.status
      ]_vars

----------------------------------------------------------------------------
(* Properties of the suffix form of a range *)

\* the header text "bytes=-K"
SuffixRange(k) == <<"bytes=", "-">> \o Decimal(k)

\* the smaller of two numbers
Min(a, b) == IF a <= b THEN a ELSE b

\* the answer is 206 with the last k bytes of the object (all of it when it
\* has no more than k)
AnswersLastBytes(k) ==
    LET n == Len(FetchedBytes)
        first == n - Min(k, n)
    IN  /\ last.status = 206
        /\ last.body = SubSeq(FetchedBytes, first + 1, n)
        /\ last.content_range = ContentRange(first, n - 1, n)

\* C38 (as claimed): a fetch with the suffix header bytes=-K, K > 0, is
\* never answered with a 206 that carries a span other than the last
\* min(K, N) bytes of the object, such as one that starts at offset 0 when
\* K < N-1.
C38_SuffixIsLastBytesOr416 ==
    Fetched =>
        \A k \in 1..(10 * MaxSize + 9) :
            (last.range = SuffixRange(k) /\ last.status = 206) =>
                AnswersLastBytes(k)

\* C38, when the suffix is no shorter than the object: the 206 carries the
\* whole object, which is its last min(K, N) bytes
C38_LongSuffixIsWholeObject ==
    (Fetched /\ Len(FetchedBytes) > 0) =>
        \A k \in Len(FetchedBytes)..(10 * MaxSize + 9) :
            last.range = SuffixRange(k) => AnswersLastBytes(k)

----------------------------------------------------------------------------
(* Properties of the isolation of sessions *)

\* C39: a registry operation on one token leaves every other session as it
\* is: a create adds exactly one entry, under a token that was not in the
\* map, and changes no stored session; a lookup of t changes nothing but
\* last_accessed of session t; a delete of t removes nothing but session t;
\* token, sources, created_at and last_accessed of a session with another
\* token stay as they were.
C39_OperationsAreIsolated ==
    [][/\ (OperationStep /\ last'.op \in Creations /\ last'.status = 200) =>
              /\ last'.token \notin DOMAIN sessions
              /\ DOMAIN sessions' = DOMAIN sessions \cup {last'.token}
              /\ \A t \in DOMAIN sessions : sessions'[t] = sessions[t]
       /\ (OperationStep /\ last'.op \in Creations /\ last'.status # 200) =>
              sessions' = sessions
       /\ (OperationStep /\ last'.op \in Lookups) =>
              /\ DOMAIN sessions' = DOMAIN sessions
              /\ \A t \in DOMAIN sessions :
                     IF t = last'.token
                     THEN [sessions'[t] EXCEPT
                              !.last_accessed = sessions[t].last_accessed]
                          = sessions[t]
                     ELSE sessions'[t] = sessions[t]
       /\ (OperationStep /\ last'.op = "delete") =>
              /\ DOMAIN sessions' = DOMAIN sessions \ {last'.token}
              /\ \A t \in DOMAIN sessions' : sessions'[t] = sessions[t]
      ]_vars

\* a session was deleted while another one, looked up after its creation,
\* stays in the map
C39_Witness ==
    /\ last.op = "delete"
    /\ last.deleted
    /\ \E t \in DOMAIN sessions :
           /\ t # last.token
           /\ sessions[t].last_accessed > sessions[t].created_at

====
